---- MODULE Spec2Model ----
(***************************************************************************)
(* A model of python-financier: the Financier session                      *)
(* (pythonfinancier/financier.py) talking to a CouchDB database through    *)
(* EasyCouchdb (pythonfinancier/easycouchdb.py).                           *)
(*                                                                         *)
(* A document id is the sequence of the segments between its underscores   *)
(* ("b_u1_account_a1" is <<"b", "u1", "account", "a1">>), so that          *)
(* str.split('_'), str.replace('budget', 'b') and the '^<prefix>_' regular *)
(* expressions of the selectors are computed on it as the code computes    *)
(* them.  A JSON document is a function from its keys to their values,     *)
(* and the database is the sequence of its documents in the order the      *)
(* store returns them, the order of their ids.                             *)
(*                                                                         *)
(* Every method is an operator from a world (the database, the fields of   *)
(* the session, the store calls issued so far, the pending exception and   *)
(* the returned value) to the world it leaves behind; an action applies    *)
(* one public method to the current state and keeps the database and the   *)
(* session it leaves.  What a call issues, returns and raises is read off  *)
(* the world the method computes in the state it is called in.             *)
(***************************************************************************)
EXTENDS Integers, Sequences, FiniteSets, TLC

VARIABLES
    store,            \* the documents of the user's database, in store order
    account_map,      \* Financier.account_map: name -> cached account doc
    category_map,     \* Financier.category_map: name -> cached category doc
    payee_map,        \* Financier.payee_map: name -> cached payee doc
    budget_selector,  \* Financier.budget_selector
    peers             \* the sessions of two other clients on the same database

vars == <<store, account_map, category_map, payee_map, budget_selector, peers>>

-----------------------------------------------------------------------------
(* Bounds of the model *)

\* the database holds at most this many transactions: no call that would
\* record more is taken
MaxTransactions == 2

\* a split transaction has at most this many lines
MaxLines == 2

-----------------------------------------------------------------------------
(* Values *)

\* JSON null / Python None inside a document
JNull == "null"

\* Python None as the value a method returns
None == [None |-> TRUE]

NoExc == "none"
AccountNotFound == "ValueError: Account not found"
CategoryNotFound == "ValueError: Category not found"
BudgetNotFound == "Exception: Budget not found"
KeyErrorId == "KeyError: 'id'"
TransportError == "requests.RequestException"

\* the values uuid.uuid4() draws for a transaction: a draw may name a
\* transaction that is already in the database (a replayed identifier)
Uuids == {"x1", "x2"}

\* the values uuid.uuid4() draws for a payee, in the order it draws them
PayeeUuids == <<"y1", "y2", "y3", "y4">>

BudgetNames == {"Home", "Work", "Shop"}
AccountNames == {"Checking", "Savings", "Nonexistent"}
CategoryNames == {"Rent", "income", "incomeNextMonth", "Clothing"}
PayeeNames == {"Shop", "Cafe"}
Values == {500}
Dates == {"2018-05-26"}
Memos == {"memo"}

\* the empty mapping (an empty dict)
EmptyMap == [x \in {} |-> x]

\* d with d[k] = v (d[k] = v on a dict)
Put(d, k, v) == (k :> v) @@ d

\* the dict of the keys of d named by fields (the 'fields' of a query)
Project(d, fields) == [x \in DOMAIN d \cap fields |-> d[x]]

-----------------------------------------------------------------------------
(* Identifiers *)

\* the first segment in place of the last
first_segment(full_id) == full_id[1]

\* full_id.split('_')[-1]: the last segment
split_id(full_id) == full_id[Len(full_id)]

\* an id left as it is
KeepBudget(id) == id

\* str.replace('budget', 'b') on the segments of an id
ReplaceBudget(id) == [i \in 1..Len(id) |-> IF id[i] = "budget" THEN "b" ELSE id[i]]

\* re.match('^<prefix>', id), where prefix ends with an underscore: the
\* segments of prefix are the first segments of id, and more follow
IsPrefix(prefix, id) ==
    /\ Len(id) > Len(prefix)
    /\ \A i \in 1..Len(prefix) : id[i] = prefix[i]

\* the type segment of a document id: <namespace>_<type>_<uuid>
TypeOf(id) == IF Len(id) >= 2 THEN id[Len(id) - 1] ELSE ""

\* budget_selector after __init__: the empty string, whose only segment is ""
NoSelector == <<"">>

-----------------------------------------------------------------------------
(* The database *)

Budget(u, name) == [_id |-> <<"budget", u>>, _rev |-> 1, name |-> name]
Account(sel, u, name) == [_id |-> sel \o <<"account", u>>, _rev |-> 1, name |-> name]
Category(sel, u, name) == [_id |-> sel \o <<"category", u>>, _rev |-> 1, name |-> name]

\* the documents of the database the session is opened on.  Two budgets are
\* named "Home"; "Shop" names a payee and no budget; a category of budget u1
\* is named like the sentinel "income"; budgets u2 and u3 are empty.
InitChildren ==
    << Account(<<"b", "u1">>, "a1", "Checking"),
       Account(<<"b", "u1">>, "a2", "Savings"),
       Category(<<"b", "u1">>, "c1", "Rent"),
       Category(<<"b", "u1">>, "c2", "income"),
       [_id |-> <<"b", "u1", "payee", "p1">>, _rev |-> 1, name |-> "Shop",
        internal |-> FALSE, autosuggest |-> TRUE, categorySuggest |-> "c1"] >>

InitStore ==
    InitChildren \o <<Budget("u1", "Home"), Budget("u2", "Work"), Budget("u3", "Home")>>

Ids(db) == {db[i]._id : i \in 1..Len(db)}
Has(db, id) == \E i \in 1..Len(db) : db[i]._id = id

\* the segments of the ids of the model, in the order of their strings
Segments ==
    << "", "a1", "a2", "account", "b", "budget", "c1", "c2", "category", "p1",
       "payee", "transaction", "u1", "u2", "u3", "x1", "x2", "y1", "y2", "y3", "y4" >>

Rank ==
    [segment \in {Segments[i] : i \in 1..Len(Segments)} |->
        CHOOSE i \in 1..Len(Segments) : Segments[i] = segment]

\* id1 sorts before id2
Before(id1, id2) ==
    \E k \in 1..Len(id2) :
        /\ \A j \in 1..(k - 1) : j <= Len(id1) /\ id1[j] = id2[j]
        /\ \/ k = Len(id1) + 1
           \/ k <= Len(id1) /\ Rank[id1[k]] < Rank[id2[k]]

\* db with doc added, where the store returns it
Added(db, doc) ==
    LET n == Cardinality({i \in 1..Len(db) : Before(db[i]._id, doc._id)})
    IN SubSeq(db, 1, n) \o <<doc>> \o SubSeq(db, n + 1, Len(db))
IndexOf(db, id) == CHOOSE i \in 1..Len(db) : db[i]._id = id

-----------------------------------------------------------------------------
(* Worlds: the state a method runs in and leaves behind *)

\* fails: which of the store calls to come, counted from 1, fail in transport
World(db, am, cm, pm, sel, fails) ==
    [store |-> db, account_map |-> am, category_map |-> cm, payee_map |-> pm,
     budget_selector |-> sel, calls |-> <<>>, exc |-> NoExc, ret |-> None,
     fails |-> fails]

Return(w, v) == [w EXCEPT !.ret = v]
Raise(w, e) == [w EXCEPT !.exc = e, !.ret = None]

\* the store call about to be issued is the one the transport fails on
Fails(w) == Len(w.calls) + 1 \in w.fails

\* a store call that raises: it is issued, and the database is left alone
Failed(w, call) ==
    [w EXCEPT !.calls = Append(@, call @@ [raised |-> TRUE]), !.exc = TransportError,
              !.ret = None]

\* a store call that returns res and leaves the database as db
Replied(w, call, res, db) ==
    [w EXCEPT !.calls = Append(@, call @@ [res |-> res]), !.store = db, !.ret = res]

\* the documents of db a selector {'_id': {'$regex': '^<prefix>_'}, 'name': name}
\* matches, in store order, cut to the fields asked for
Matching(db, prefix, name, fields) ==
    LET hit(d) == "name" \in DOMAIN d /\ d.name = name /\ IsPrefix(prefix, d._id)
        hits == SelectSeq(db, hit)
    IN [i \in 1..Len(hits) |-> Project(hits[i], fields)]

\* EasyCouchdb.query followed by .json()['docs']
query(w, prefix, name, fields) ==
    LET call == [op |-> "query", prefix |-> prefix, name |-> name]
    IN IF Fails(w) THEN Failed(w, call)
       ELSE Replied(w, call, Matching(w.store, prefix, name, fields), w.store)

\* EasyCouchdb.get_doc followed by .json(): the document, or the error body
get_doc(w, id) ==
    LET call == [op |-> "get_doc", id |-> id]
    IN IF Fails(w) THEN Failed(w, call)
       ELSE IF Has(w.store, id)
            THEN Replied(w, call, w.store[IndexOf(w.store, id)], w.store)
            ELSE Replied(w, call, [error |-> "not_found", reason |-> "missing"], w.store)

Conflict == [error |-> "conflict", reason |-> "Document update conflict."]

\* EasyCouchdb.insert followed by .json(): POST of a document that carries
\* its own _id
insert(w, doc) ==
    LET call == [op |-> "insert", doc |-> doc]
    IN IF Fails(w) THEN Failed(w, call)
       ELSE IF Has(w.store, doc._id)
            THEN Replied(w, call, Conflict, w.store)
            ELSE Replied(w, call, [ok |-> TRUE, id |-> doc._id, rev |-> 1],
                         Added(w.store, Put(doc, "_rev", 1)))

\* EasyCouchdb.save: PUT of a document; the store accepts a new id without a
\* revision and an existing id with its current revision
save(w, doc) ==
    LET call == [op |-> "save", doc |-> doc]
        exists == Has(w.store, doc._id)
        i == IndexOf(w.store, doc._id)
    IN IF Fails(w) THEN Failed(w, call)
       ELSE IF ~exists /\ "_rev" \notin DOMAIN doc
            THEN Replied(w, call, [ok |-> TRUE, id |-> doc._id, rev |-> 1],
                         Added(w.store, Put(doc, "_rev", 1)))
       ELSE IF exists /\ "_rev" \in DOMAIN doc /\ doc._rev = w.store[i]._rev
            THEN Replied(w, call, [ok |-> TRUE, id |-> doc._id, rev |-> doc._rev + 1],
                         [w.store EXCEPT ![i] = Put(doc, "_rev", doc._rev + 1)])
       ELSE Replied(w, call, Conflict, w.store)

-----------------------------------------------------------------------------
(* Financier *)


\* d without the key k (dict.pop(k))
Drop(d, k) == [x \in DOMAIN d \ {k} |-> d[x]]

\* a draw that repeats itself
uuid4Repeating(db) == PayeeUuids[1]

\* uuid.uuid4() in insert_payee: the first value no document is named by yet
uuid4(db) ==
    LET used == {split_id(db[i]._id) : i \in 1..Len(db)}
        n == CHOOSE k \in 1..Len(PayeeUuids) :
                 /\ PayeeUuids[k] \notin used
                 /\ \A j \in 1..(k - 1) : PayeeUuids[j] \in used
    IN PayeeUuids[n]

find_budget(w, name) == query(w, <<"budget">>, name, {"_id", "name"})

\* a connect that starts the session over: the caches are emptied
connect_budgetClearing(w, name) ==
    LET w1 == find_budget(w, name)
        budget == w1.ret
    IN IF w1.exc # NoExc THEN w1
       ELSE IF budget # <<>>
            THEN Return([w1 EXCEPT !.budget_selector = ReplaceBudget(budget[1]._id),
                                   !.account_map = EmptyMap, !.category_map = EmptyMap,
                                   !.payee_map = EmptyMap], None)
            ELSE Raise(w1, BudgetNotFound)

connect_budget(w, name) ==
    LET w1 == find_budget(w, name)
        budget == w1.ret
    IN IF w1.exc # NoExc THEN w1
       ELSE IF budget # <<>>
            THEN Return([w1 EXCEPT !.budget_selector = ReplaceBudget(budget[1]._id)], None)
            ELSE Raise(w1, BudgetNotFound)

\* a transaction id that leaves the budget selector out
get_id_transactionUnscoped(w, this_id) == <<"transaction", this_id>>

get_id_transaction(w, this_id) == w.budget_selector \o <<"transaction", this_id>>

get_transaction(w, id_transaction) == get_doc(w, id_transaction)

\* find_account that forgets what it found
find_accountUncached(w, name) ==
    IF name \in DOMAIN w.account_map
    THEN Return(w, w.account_map[name])
    ELSE LET w1 == query(w, w.budget_selector \o <<"account">>, name, {"_id", "name"})
             res == Put(w1.ret[1], "_id", split_id(w1.ret[1]._id))
         IN IF w1.exc # NoExc \/ w1.ret = <<>>
            THEN Raise(w1, AccountNotFound)
            ELSE Return(w1, res)

\* find_account that remembers a miss
find_accountCachingMiss(w, name) ==
    IF name \in DOMAIN w.account_map
    THEN Return(w, w.account_map[name])
    ELSE LET w1 == query(w, w.budget_selector \o <<"account">>, name, {"_id", "name"})
             res == Put(w1.ret[1], "_id", split_id(w1.ret[1]._id))
         IN IF w1.exc # NoExc \/ w1.ret = <<>>
            THEN Raise([w1 EXCEPT !.account_map = Put(@, name, [name |-> name])],
                       AccountNotFound)
            ELSE Return([w1 EXCEPT !.account_map = Put(@, name, res)], res)

\* find_account that creates the account it misses
find_accountCreating(w, name) ==
    IF name \in DOMAIN w.account_map
    THEN Return(w, w.account_map[name])
    ELSE LET w1 == query(w, w.budget_selector \o <<"account">>, name, {"_id", "name"})
             res == Put(w1.ret[1], "_id", split_id(w1.ret[1]._id))
             created == [_id |-> w.budget_selector \o <<"account", uuid4(w1.store)>>,
                         name |-> name]
         IN IF w1.exc # NoExc \/ w1.ret = <<>>
            THEN Raise(insert(w1, created), AccountNotFound)
            ELSE Return([w1 EXCEPT !.account_map = Put(@, name, res)], res)

find_account(w, name) ==
    IF name \in DOMAIN w.account_map
    THEN Return(w, w.account_map[name])
    ELSE LET w1 == query(w, w.budget_selector \o <<"account">>, name, {"_id", "name"})
             res == Put(w1.ret[1], "_id", split_id(w1.ret[1]._id))
         IN \* the try block: a failed query and an empty result raise alike
            IF w1.exc # NoExc \/ w1.ret = <<>>
            THEN Raise(w1, AccountNotFound)
            ELSE Return([w1 EXCEPT !.account_map = Put(@, name, res)], res)

find_payee(w, name) ==
    query(w, w.budget_selector \o <<"payee">>, name, {"_id", "name", "categorySuggest"})

Sentinels == {"income", "incomeNextMonth"}

\* find_category without the branch of the sentinel names
find_categoryNoSentinel(w, name) ==
    IF name \in DOMAIN w.category_map
    THEN Return(w, w.category_map[name])
    ELSE LET w1 == query(w, w.budget_selector \o <<"category">>, name, {"_id", "name"})
             res == Put(w1.ret[1], "_id", split_id(w1.ret[1]._id))
         IN IF w1.exc # NoExc \/ w1.ret = <<>>
            THEN Raise(w1, CategoryNotFound)
            ELSE Return([w1 EXCEPT !.category_map = Put(@, name, res)], res)

\* find_category that creates the category it misses
find_categoryCreating(w, name) ==
    IF name \in Sentinels
    THEN Return(w, [_id |-> name, name |-> name])
    ELSE IF name \in DOMAIN w.category_map
    THEN Return(w, w.category_map[name])
    ELSE LET w1 == query(w, w.budget_selector \o <<"category">>, name, {"_id", "name"})
             res == Put(w1.ret[1], "_id", split_id(w1.ret[1]._id))
             created == [_id |-> w.budget_selector \o <<"category", uuid4(w1.store)>>,
                         name |-> name]
         IN IF w1.exc # NoExc \/ w1.ret = <<>>
            THEN Raise(insert(w1, created), CategoryNotFound)
            ELSE Return([w1 EXCEPT !.category_map = Put(@, name, res)], res)

find_category(w, name) ==
    IF name \in Sentinels
    THEN Return(w, [_id |-> name, name |-> name])
    ELSE IF name \in DOMAIN w.category_map
    THEN Return(w, w.category_map[name])
    ELSE LET w1 == query(w, w.budget_selector \o <<"category">>, name, {"_id", "name"})
             res == Put(w1.ret[1], "_id", split_id(w1.ret[1]._id))
         IN IF w1.exc # NoExc \/ w1.ret = <<>>
            THEN Raise(w1, CategoryNotFound)
            ELSE Return([w1 EXCEPT !.category_map = Put(@, name, res)], res)

\* a payee document that is not suggested
PayeeDocNoSuggest(sel, u, name) ==
    [_id |-> sel \o <<"payee", u>>, name |-> name, internal |-> FALSE,
     autosuggest |-> FALSE]

PayeeDoc(sel, u, name) ==
    [_id |-> sel \o <<"payee", u>>, name |-> name, internal |-> FALSE,
     autosuggest |-> TRUE]

insert_payee(w, name) ==
    insert(w, PayeeDoc(w.budget_selector, uuid4(w.store), name))

\* get_or_create_payee that forgets the payee it created
get_or_create_payeeForgetting(w, name) ==
    IF name \in DOMAIN w.payee_map
    THEN Return(w, w.payee_map[name])
    ELSE LET w1 == find_payee(w, name)
             found == Put(w1.ret[1], "_id", split_id(w1.ret[1]._id))
             w2 == insert_payee(w1, name)
             created == Put(w2.ret, "_id", split_id(w2.ret.id))
         IN IF w1.exc # NoExc THEN w1
            ELSE IF w1.ret # <<>>
            THEN Return([w1 EXCEPT !.payee_map = Put(@, name, found)], found)
            ELSE IF w2.exc # NoExc THEN w2
            ELSE IF "id" \notin DOMAIN w2.ret THEN Raise(w2, KeyErrorId)
            ELSE Return(w2, created)

get_or_create_payee(w, name) ==
    IF name \in DOMAIN w.payee_map
    THEN Return(w, w.payee_map[name])
    ELSE LET w1 == find_payee(w, name)
             found == Put(w1.ret[1], "_id", split_id(w1.ret[1]._id))
             w2 == insert_payee(w1, name)
             created == Put(w2.ret, "_id", split_id(w2.ret.id))
         IN IF w1.exc # NoExc THEN w1
            ELSE IF w1.ret # <<>>
            THEN Return([w1 EXCEPT !.payee_map = Put(@, name, found)], found)
            ELSE IF w2.exc # NoExc THEN w2
            ELSE IF "id" \notin DOMAIN w2.ret THEN Raise(w2, KeyErrorId)
            ELSE Return([w2 EXCEPT !.payee_map = Put(@, name, created)], created)

\* The calls a method body makes in sequence: each is made only when no
\* exception is pending.
ThenFindAccount(w, name) == IF w.exc # NoExc THEN w ELSE find_account(w, name)
ThenFindCategory(w, name) == IF w.exc # NoExc THEN w ELSE find_category(w, name)
ThenGetOrCreatePayee(w, name) == IF w.exc # NoExc THEN w ELSE get_or_create_payee(w, name)
ThenGetTransaction(w, id_transaction) == IF w.exc # NoExc THEN w ELSE get_transaction(w, id_transaction)

\* a probe that takes every transaction for absent
IsAbsentAlways(tr) == TRUE

\* `not tr or '_id' not in tr`
IsAbsent(tr) == DOMAIN tr = {} \/ "_id" \notin DOMAIN tr

\* a document that is saved as it was built
WithRevDropped(doc, tr) == doc

\* `if '_rev' in tr: doc['_rev'] = tr['_rev']`
WithRev(doc, tr) == IF "_rev" \in DOMAIN tr THEN Put(doc, "_rev", tr._rev) ELSE doc

\* `if not tr or '_id' not in tr:` save doc, `else:` warn and return nothing
SaveIfAbsent(w, tr, doc) ==
    IF w.exc # NoExc THEN w
    ELSE IF IsAbsent(tr) THEN save(w, WithRev(doc, tr))
    ELSE Return(w, None)

TransactionDoc(id_transaction, value, account_id, payee_id, date, category_id, memo) ==
    [_id |-> id_transaction, value |-> value, account |-> account_id,
     payee |-> payee_id, date |-> date, category |-> category_id, memo |-> memo]

\* save_transaction that resolves the category before the payee
save_transactionCategoryFirst(w, account_name, category_name, value, date, payee_name, memo, this_id) ==
    LET w1 == find_account(w, account_name)
        account_id == w1.ret._id
        w2 == ThenFindCategory(w1, category_name)
        category_id == w2.ret._id
        w3 == ThenGetOrCreatePayee(w2, payee_name)
        payee_id == w3.ret._id
        id_transaction == get_id_transaction(w3, this_id)
        w4 == ThenGetTransaction(w3, id_transaction)
        tr == w4.ret
        doc == TransactionDoc(id_transaction, value, account_id, payee_id, date,
                              category_id, memo)
    IN SaveIfAbsent(w4, tr, doc)

save_transaction(w, account_name, category_name, value, date, payee_name, memo, this_id) ==
    LET w1 == find_account(w, account_name)
        account_id == w1.ret._id
        w2 == ThenGetOrCreatePayee(w1, payee_name)
        payee_id == w2.ret._id
        w3 == ThenFindCategory(w2, category_name)
        category_id == w3.ret._id
        id_transaction == get_id_transaction(w3, this_id)
        w4 == ThenGetTransaction(w3, id_transaction)
        tr == w4.ret
        doc == TransactionDoc(id_transaction, value, account_id, payee_id, date,
                              category_id, memo)
    IN SaveIfAbsent(w4, tr, doc)

\* a turn of the loop that leaves the names in the line
ResolveLineKeepingNames(t, category_id, payee_id) ==
    Put(Put(t, "category", category_id), "payee", payee_id)

\* one turn of the loop of save_split on line t
ResolveLine(t, category_id, payee_id) ==
    Put(Drop(Put(Drop(t, "category_name"), "category", category_id), "payee_name"),
        "payee", payee_id)

\* the loop of save_split over transactions[i..]
RECURSIVE ResolveSplits(_, _, _)
ResolveSplits(w, transactions, i) ==
    IF w.exc # NoExc THEN w
    ELSE IF i > Len(transactions) THEN Return(w, transactions)
    ELSE LET t == transactions[i]
             w1 == find_category(w, t.category_name)
             w2 == ThenGetOrCreatePayee(w1, t.payee_name)
         IN IF w2.exc # NoExc THEN w2
            ELSE ResolveSplits(w2, [transactions EXCEPT
                                       ![i] = ResolveLine(t, w1.ret._id, w2.ret._id)],
                               i + 1)

SplitDoc(id_transaction, value, account_id, payee_id, date, memo, transactions) ==
    [_id |-> id_transaction, value |-> value, account |-> account_id,
     payee |-> payee_id, date |-> date, category |-> "split", memo |-> memo,
     splits |-> transactions]

save_split(w, account_name, value, date, payee_name, memo, transactions, this_id) ==
    LET w1 == find_account(w, account_name)
        account_id == w1.ret._id
        w2 == ThenGetOrCreatePayee(w1, payee_name)
        payee_id == w2.ret._id
        id_transaction == get_id_transaction(w2, this_id)
        w3 == ThenGetTransaction(w2, id_transaction)
        tr == w3.ret
        w4 == ResolveSplits(w3, transactions, 1)
        doc == SplitDoc(id_transaction, value, account_id, payee_id, date, memo, w4.ret)
    IN SaveIfAbsent(w4, tr, doc)

\* `return from_save_output, to_save_output`, to_save_output being what w
\* returned last
ReturnBoth(w, from_save_output) ==
    IF w.exc # NoExc THEN w
    ELSE Return(w, [from |-> from_save_output, to |-> w.ret])

\* `if from_category_name:` of a str or None
Truthy(v) == v # JNull /\ v # ""

\* a from leg that leaves the category out
FromDocUncategorized(from_id_transaction, value, from_account_id, date, memo, from_category_id, to_id) ==
    [_id |-> from_id_transaction, value |-> (-1) * value, account |-> from_account_id,
     date |-> date, memo |-> memo, category |-> JNull, transfer |-> to_id]

\* a from leg of the value of the to leg
FromDocSameSign(from_id_transaction, value, from_account_id, date, memo, from_category_id, to_id) ==
    [_id |-> from_id_transaction, value |-> value, account |-> from_account_id,
     date |-> date, memo |-> memo, category |-> from_category_id, transfer |-> to_id]

FromDoc(from_id_transaction, value, from_account_id, date, memo, from_category_id, to_id) ==
    [_id |-> from_id_transaction, value |-> (-1) * value, account |-> from_account_id,
     date |-> date, memo |-> memo, category |-> from_category_id, transfer |-> to_id]

ToDoc(to_id_transaction, value, to_account_id, date, memo, from_id) ==
    [_id |-> to_id_transaction, value |-> value, account |-> to_account_id,
     date |-> date, memo |-> memo, transfer |-> from_id]

\* save_transfer that saves the to leg first
save_transferToFirst(w, from_account_name, to_account_name, value, date, memo, from_category_name, from_id, to_id) ==
    LET w1 == find_account(w, from_account_name)
        from_account_id == w1.ret._id
        w2 == ThenFindAccount(w1, to_account_name)
        to_account_id == w2.ret._id
        w3 == IF Truthy(from_category_name)
              THEN ThenFindCategory(w2, from_category_name)
              ELSE w2
        from_category_id == IF Truthy(from_category_name) THEN w3.ret._id ELSE JNull
        from_id_transaction == get_id_transaction(w3, from_id)
        to_id_transaction == get_id_transaction(w3, to_id)
        w4 == ThenGetTransaction(w3, from_id_transaction)
        from_tr == w4.ret
        w5 == ThenGetTransaction(w4, to_id_transaction)
        to_tr == w5.ret
        to_doc == ToDoc(to_id_transaction, value, to_account_id, date, memo, from_id)
        w6 == SaveIfAbsent(w5, to_tr, to_doc)
        to_save_output == w6.ret
        from_doc == FromDoc(from_id_transaction, value, from_account_id, date, memo,
                            from_category_id, to_id)
        w7 == SaveIfAbsent(w6, from_tr, from_doc)
    IN IF w7.exc # NoExc THEN w7 ELSE Return(w7, [from |-> w7.ret, to |-> to_save_output])

save_transfer(w, from_account_name, to_account_name, value, date, memo, from_category_name, from_id, to_id) ==
    LET w1 == find_account(w, from_account_name)
        from_account_id == w1.ret._id
        w2 == ThenFindAccount(w1, to_account_name)
        to_account_id == w2.ret._id
        w3 == IF Truthy(from_category_name)
              THEN ThenFindCategory(w2, from_category_name)
              ELSE w2
        from_category_id == IF Truthy(from_category_name) THEN w3.ret._id ELSE JNull
        from_id_transaction == get_id_transaction(w3, from_id)
        to_id_transaction == get_id_transaction(w3, to_id)
        w4 == ThenGetTransaction(w3, from_id_transaction)
        from_tr == w4.ret
        w5 == ThenGetTransaction(w4, to_id_transaction)
        to_tr == w5.ret
        from_doc == FromDoc(from_id_transaction, value, from_account_id, date, memo,
                            from_category_id, to_id)
        w6 == SaveIfAbsent(w5, from_tr, from_doc)
        from_save_output == w6.ret
        to_doc == ToDoc(to_id_transaction, value, to_account_id, date, memo, from_id)
        w7 == SaveIfAbsent(w6, to_tr, to_doc)
    IN ReturnBoth(w7, from_save_output)

-----------------------------------------------------------------------------
(* The session as a state machine *)

\* no store call fails in transport
NoFail == {}

Here(fails) ==
    World(store, account_map, category_map, payee_map, budget_selector, fails)

\* the state a method call leaves behind
Commit(w) ==
    /\ Cardinality({id \in Ids(w.store) : TypeOf(id) = "transaction"}) <= MaxTransactions
    /\ store' = w.store
    /\ account_map' = w.account_map
    /\ category_map' = w.category_map
    /\ payee_map' = w.payee_map
    /\ budget_selector' = w.budget_selector
    /\ peers' = peers

-----------------------------------------------------------------------------
(* The calls: the arguments of the three record methods *)

Line(category_name, payee_name) ==
    [value |-> 300, category_name |-> category_name, payee_name |-> payee_name,
     memo |-> "split 1/2"]

\* the lines of a split (test.py, test_splits): one of a category of the
\* budget, one of a sentinel category, one of a category that is missing
Lines == {Line("Rent", "Cafe"), Line("incomeNextMonth", "Shop"), Line("Clothing", "Cafe")}
LineSeqs == UNION {[1..n -> Lines] : n \in 0..MaxLines}

TransactionCalls ==
    [account_name : AccountNames, category_name : CategoryNames, value : Values,
     date : Dates, payee_name : PayeeNames, memo : Memos, this_id : Uuids]

\* a split is recorded on an account of the budget, or on one that is missing
SplitCalls ==
    [account_name : {"Checking", "Nonexistent"}, value : Values, date : Dates,
     payee_name : PayeeNames, memo : Memos, transactions : LineSeqs, this_id : Uuids]

\* the two draws of uuid4 of one transfer differ
TransferCalls ==
    {c \in [from_account_name : AccountNames, to_account_name : AccountNames,
            value : Values, date : Dates, memo : Memos,
            from_category_name : CategoryNames \cup {JNull},
            from_id : Uuids, to_id : Uuids] : c.from_id # c.to_id}

SaveTransactionCall(w, c) ==
    save_transaction(w, c.account_name, c.category_name, c.value, c.date,
                     c.payee_name, c.memo, c.this_id)

SaveSplitCall(w, c) ==
    save_split(w, c.account_name, c.value, c.date, c.payee_name, c.memo,
               c.transactions, c.this_id)

SaveTransferCall(w, c) ==
    save_transfer(w, c.from_account_name, c.to_account_name, c.value, c.date, c.memo,
                  c.from_category_name, c.from_id, c.to_id)

\* The calls the session takes.  A record method reads of a stored
\* transaction its _id and _rev only, so the state a call is made in varies
\* with the ids that are taken, not with what was recorded under them: the
\* session takes the calls of test.py, and the calls that miss an account or
\* a category; a transaction is recorded under either id, a split under the
\* first, a transfer from the first to the second.  What a call does is
\* stated of every call of TransactionCalls, SplitCalls and TransferCalls, in
\* every state the session reaches.
TransactionsTaken ==
    {c \in TransactionCalls :
        <<c.account_name, c.category_name, c.payee_name>> \in
               { <<"Checking", "Rent", "Cafe">>,
                 <<"Nonexistent", "income", "Shop">>, <<"Checking", "Clothing", "Shop">> }}

SplitsTaken ==
    {c \in SplitCalls :
        c.this_id = "x1" /\ <<c.account_name, c.payee_name, c.transactions>> \in
               { <<"Checking", "Shop", <<Line("Rent", "Cafe"), Line("incomeNextMonth", "Shop")>> >>,
                 <<"Checking", "Cafe", <<Line("Clothing", "Cafe")>> >> }}

TransfersTaken ==
    {c \in TransferCalls :
        c.from_id = "x1" /\ <<c.from_account_name, c.to_account_name, c.from_category_name>> \in
               { <<"Checking", "Savings", "Rent">>,
                 <<"Checking", "Nonexistent", JNull>> }}

\* Two more clients of the same database, each a Financier session of its
\* own: its payee_map and budget_selector, and where it stands inside
\* get_or_create_payee (pc), between the query that missed name and the insert
Sessions == {"s1", "s2"}
Peer(pm, sel, pc, name) == [payee_map |-> pm, budget_selector |-> sel, pc |-> pc, name |-> name]

Init ==
    /\ store = InitStore
    /\ account_map = EmptyMap
    /\ category_map = EmptyMap
    /\ payee_map = EmptyMap
    /\ budget_selector = NoSelector
    /\ peers = [s \in Sessions |-> Peer(EmptyMap, NoSelector, "idle", JNull)]

ConnectBudget(fails) ==
    \E name \in BudgetNames :
        Commit(connect_budget(Here(fails), name))

FindAccount(fails) ==
    \E name \in AccountNames :
        Commit(find_account(Here(fails), name))

FindCategory(fails) ==
    \E name \in CategoryNames :
        Commit(find_category(Here(fails), name))

GetOrCreatePayee(fails) ==
    \E name \in PayeeNames :
        Commit(get_or_create_payee(Here(fails), name))

SaveTransaction(fails) ==
    \E c \in TransactionsTaken : Commit(SaveTransactionCall(Here(fails), c))

SaveSplit(fails) ==
    \E c \in SplitsTaken : Commit(SaveSplitCall(Here(fails), c))

SaveTransfer(fails) ==
    \E c \in TransfersTaken : Commit(SaveTransferCall(Here(fails), c))

Next ==
    \/ ConnectBudget(NoFail)
    \/ FindAccount(NoFail)
    \/ FindCategory(NoFail)
    \/ GetOrCreatePayee(NoFail)
    \/ SaveTransaction(NoFail)
    \/ SaveSplit(NoFail)
    \/ SaveTransfer(NoFail)

Spec == Init /\ [][Next]_vars

\* The session on a transport that may fail: of the store calls of a method
\* call, at most one raises (requests raises ConnectionError, Timeout)
FailSets == {{1}, {2}, {3}, {4}, {5}, {6}, {7}}

NextOnFailingTransport ==
    \E fails \in FailSets \cup {NoFail} :
        \/ ConnectBudget(fails)
        \/ FindAccount(fails)
        \/ FindCategory(fails)
        \/ GetOrCreatePayee(fails)
        \/ SaveTransaction(fails)
        \/ SaveSplit(fails)
        \/ SaveTransfer(fails)

OnFailingTransport == Init /\ [][NextOnFailingTransport]_vars

\* The session that connects one budget: connect_budget is called until it
\* has succeeded (budget_selector is '' until then, and never after), and
\* not again
ConnectBudgetOnce ==
    /\ budget_selector = NoSelector
    /\ ConnectBudget(NoFail)

NextSingleBudget ==
    \/ ConnectBudgetOnce
    \/ FindAccount(NoFail)
    \/ FindCategory(NoFail)
    \/ GetOrCreatePayee(NoFail)
    \/ SaveTransaction(NoFail)
    \/ SaveSplit(NoFail)
    \/ SaveTransfer(NoFail)

SingleBudget == Init /\ [][NextSingleBudget]_vars

-----------------------------------------------------------------------------
(* What the claims read *)

\* the calls of one kind among the store calls of a method call
CallsOf(w, op) == SelectSeq(w.calls, LAMBDA call : call.op = op)

\* the document of db named id
DocAt(db, id) == db[IndexOf(db, id)]

\* the number of documents of db named id
Count(db, id) == Cardinality({i \in 1..Len(db) : db[i]._id = id})

\* the session and the database a method call leaves, for the next call
After(w) ==
    World(w.store, w.account_map, w.category_map, w.payee_map, w.budget_selector, NoFail)

\* the transaction id a record call builds in the current state
TransactionId(this_id) == budget_selector \o <<"transaction", this_id>>

-----------------------------------------------------------------------------
(* C1 *)

\* a save_transaction call whose id names a document of the database
Replayed(c) == Has(store, TransactionId(c.this_id))

SkipsExisting(c) ==
    LET w == SaveTransactionCall(Here(NoFail), c)
        id == TransactionId(c.this_id)
    IN /\ CallsOf(w, "save") = <<>>
       /\ Count(w.store, id) = 1
       /\ DocAt(w.store, id) = DocAt(store, id)
       /\ w.exc = NoExc =>
             /\ w.ret = None
             /\ \E i \in 1..Len(w.calls) :
                   /\ w.calls[i].op = "get_doc"
                   /\ w.calls[i].id = id
                   /\ "_id" \in DOMAIN w.calls[i].res

\* the same call made twice, the first on an id that names no document
TwiceRecordsOnce(c) ==
    LET w1 == SaveTransactionCall(Here(NoFail), c)
        w2 == SaveTransactionCall(After(w1), c)
        id == TransactionId(c.this_id)
    IN (w1.exc = NoExc /\ w2.exc = NoExc) =>
          /\ Count(w2.store, id) = 1
          /\ CallsOf(w2, "save") = <<>>
          /\ w2.ret = None
          /\ w2.store = w1.store

\* C1: a save_transaction call whose transaction id names a document of the
\* database (the probe returns a document with an _id) saves nothing, leaves
\* that document as it is and returns None; the same call made twice leaves
\* one document of that id, and its second run saves nothing.
SaveTransactionIdempotent ==
    [](\A c \in TransactionCalls :
          /\ Replayed(c) => SkipsExisting(c)
          /\ ~Replayed(c) => TwiceRecordsOnce(c))

\* a call of an id that names a document is made, and returns None
SaveTransactionReplayed ==
    \E c \in TransactionCalls :
        /\ Replayed(c)
        /\ SaveTransactionCall(Here(NoFail), c).exc = NoExc
        /\ SaveTransactionCall(Here(NoFail), c).ret = None

-----------------------------------------------------------------------------
(* C2 *)

\* the queries of a method call for the documents of one type and name
QueriesFor(w, type, name) ==
    SelectSeq(w.calls, LAMBDA call : /\ call.op = "query"
                                     /\ call.prefix[Len(call.prefix)] = type
                                     /\ call.name = name)

\* a resolution that succeeds is answered from the cache from then on: the
\* same id, and no store call
Memoized(w, again) ==
    w.exc = NoExc => (again.exc = NoExc /\ again.calls = <<>> /\ again.ret._id = w.ret._id)

\* a name that is cached is answered from the cache
FromCache(map, name, w) ==
    name \in DOMAIN map => (w.exc = NoExc /\ w.calls = <<>> /\ w.ret._id = map[name]._id)

ResolutionsMemoized ==
    /\ \A name \in AccountNames :
          LET w == find_account(Here(NoFail), name)
          IN /\ Memoized(w, find_account(After(w), name))
             /\ FromCache(account_map, name, w)
    /\ \A name \in CategoryNames :
          LET w == find_category(Here(NoFail), name)
          IN /\ Memoized(w, find_category(After(w), name))
             /\ FromCache(category_map, name, w)
    /\ \A name \in PayeeNames :
          LET w == get_or_create_payee(Here(NoFail), name)
          IN /\ Memoized(w, get_or_create_payee(After(w), name))
             /\ FromCache(payee_map, name, w)

\* a record call queries no name that is cached, inserts no payee that is
\* cached, and queries no name twice
QueriesOnce(w) ==
    /\ \A name \in DOMAIN account_map : QueriesFor(w, "account", name) = <<>>
    /\ \A name \in DOMAIN category_map : QueriesFor(w, "category", name) = <<>>
    /\ \A name \in DOMAIN payee_map : QueriesFor(w, "payee", name) = <<>>
    /\ \A i \in 1..Len(w.calls) :
          /\ w.calls[i].op = "insert" => w.calls[i].doc.name \notin DOMAIN payee_map
          /\ w.calls[i].op = "query" =>
                \A j \in 1..Len(w.calls) :
                    (w.calls[j].op = "query" /\ w.calls[j].prefix = w.calls[i].prefix
                     /\ w.calls[j].name = w.calls[i].name) => j = i

RecordsQueryOnce ==
    /\ \A c \in TransactionCalls : QueriesOnce(SaveTransactionCall(Here(NoFail), c))
    /\ \A c \in SplitCalls : QueriesOnce(SaveSplitCall(Here(NoFail), c))
    /\ \A c \in TransferCalls : QueriesOnce(SaveTransferCall(Here(NoFail), c))

\* no step of the session drops a cache entry or changes the id it holds
Kept(map, map2) ==
    \A name \in DOMAIN map : name \in DOMAIN map2 /\ map2[name]._id = map[name]._id

\* C2: once find_account, find_category or get_or_create_payee has resolved
\* a name, every later resolution of that name in the session, on its own or
\* inside a record call, issues no query and no insert and returns the id of
\* the first; a name is queried at most once.
ResolutionMemoized ==
    /\ [](ResolutionsMemoized /\ RecordsQueryOnce)
    /\ [][/\ Kept(account_map, account_map')
          /\ Kept(category_map, category_map')
          /\ Kept(payee_map, payee_map')]_vars

\* the three caches answer: an account, a category and a payee are resolved
\* again, after the budget was changed
ResolvedFromCache ==
    /\ "Checking" \in DOMAIN account_map
    /\ "Rent" \in DOMAIN category_map
    /\ "Cafe" \in DOMAIN payee_map
    /\ budget_selector = <<"b", "u2">>
    /\ find_account(Here(NoFail), "Checking").calls = <<>>
    /\ find_category(Here(NoFail), "Rent").calls = <<>>
    /\ get_or_create_payee(Here(NoFail), "Cafe").calls = <<>>

-----------------------------------------------------------------------------
(* C3 *)

\* the ids of the two legs of a transfer call name no document
LegsAbsent(c) ==
    /\ ~Has(store, TransactionId(c.from_id))
    /\ ~Has(store, TransactionId(c.to_id))

\* the names of a transfer call resolve in the current state
TransferResolves(c) ==
    /\ find_account(Here(NoFail), c.from_account_name).exc = NoExc
    /\ find_account(Here(NoFail), c.to_account_name).exc = NoExc
    /\ c.from_category_name # JNull =>
          find_category(Here(NoFail), c.from_category_name).exc = NoExc

\* every document of db is in db2 as it is in db
Keeps(db, db2) ==
    \A i \in 1..Len(db) : Count(db2, db[i]._id) = 1 /\ DocAt(db2, db[i]._id) = db[i]

TransferSymmetric(c) ==
    LET w == SaveTransferCall(Here(NoFail), c)
        from_id == TransactionId(c.from_id)
        to_id == TransactionId(c.to_id)
        fromLeg == DocAt(w.store, from_id)
        toLeg == DocAt(w.store, to_id)
        saves == CallsOf(w, "save")
    IN /\ TransferResolves(c) => w.exc = NoExc
       /\ w.exc = NoExc =>
             /\ Len(saves) = 2
             /\ saves[1].doc._id = from_id
             /\ saves[2].doc._id = to_id
             /\ CallsOf(w, "insert") = <<>>
             /\ Len(w.store) = Len(store) + 2
             /\ Keeps(store, w.store)
             /\ Count(w.store, from_id) = 1
             /\ Count(w.store, to_id) = 1
             /\ fromLeg.value = 0 - c.value
             /\ toLeg.value = c.value
             /\ fromLeg.account = find_account(Here(NoFail), c.from_account_name).ret._id
             /\ toLeg.account = find_account(Here(NoFail), c.to_account_name).ret._id
             /\ fromLeg.transfer = split_id(toLeg._id)
             /\ toLeg.transfer = split_id(fromLeg._id)

\* C3: a save_transfer call that finds the ids of both legs absent, and whose
\* accounts and category resolve, saves exactly two transaction documents:
\* the from leg of value -v on the resolved id of the from account, the to leg
\* of value v on the resolved id of the to account, each naming in `transfer`
\* the last segment of the id of the other.
TransferSymmetry ==
    [](\A c \in TransferCalls : LegsAbsent(c) => TransferSymmetric(c))

\* a transfer between two accounts is recorded on two absent ids
TransferRecorded ==
    \E c \in TransferCalls :
        /\ LegsAbsent(c)
        /\ c.from_account_name # c.to_account_name
        /\ SaveTransferCall(Here(NoFail), c).exc = NoExc
        /\ Len(CallsOf(SaveTransferCall(Here(NoFail), c), "save")) = 2

-----------------------------------------------------------------------------
(* C4 *)

\* find_category answers a sentinel name in world w0 with the name, without a
\* store call, and leaves the session and the database of w0
SentinelAnswered(name, w0) ==
    LET w == find_category(w0, name)
    IN /\ w.exc = NoExc
       /\ w.ret._id = name
       /\ w.calls = <<>>
       /\ w.category_map = w0.category_map
       /\ w.account_map = w0.account_map
       /\ w.payee_map = w0.payee_map
       /\ w.store = w0.store

\* the current state with a category cached under name
CachedAs(name, id) ==
    [Here(NoFail) EXCEPT !.category_map = Put(@, name, [_id |-> id, name |-> name])]

\* C4: find_category("income") and find_category("incomeNextMonth") return
\* the name as the id, issue no store call and leave the category cache as it
\* is, in every state of the session: before a budget is connected, when the
\* budget holds a category of that name, and when the cache holds an entry of
\* that name.
SentinelCategories ==
    [](\A name \in Sentinels :
          /\ SentinelAnswered(name, Here(NoFail))
          /\ SentinelAnswered(name, CachedAs(name, "c2")))

\* a sentinel is resolved in a budget that holds a category of its name, by a
\* session whose category cache is in use
SentinelShadowsCategory ==
    /\ category_map # EmptyMap
    /\ Matching(store, budget_selector \o <<"category">>, "income", {"_id"}) # <<>>
    /\ find_category(Here(NoFail), "income").ret._id = "income"
    /\ find_category(Here(NoFail), "income").calls = <<>>

-----------------------------------------------------------------------------
(* C5 *)

\* name is not cached, and names no payee of the active budget
PayeeUnknown(name) ==
    /\ name \notin DOMAIN payee_map
    /\ Matching(store, budget_selector \o <<"payee">>, name, {"_id"}) = <<>>

PayeeCreatedOnce(name) ==
    LET w == get_or_create_payee(Here(NoFail), name)
        inserts == CallsOf(w, "insert")
        doc == inserts[1].doc
        u == split_id(doc._id)
        again == get_or_create_payee(After(w), name)
    IN /\ w.exc = NoExc
       /\ Len(inserts) = 1
       /\ CallsOf(w, "save") = <<>>
       /\ doc._id = budget_selector \o <<"payee", u>>
       /\ \A i \in 1..Len(store) : split_id(store[i]._id) # u
       /\ DOMAIN doc = {"_id", "name", "internal", "autosuggest"}
       /\ doc.name = name
       /\ doc.internal = FALSE
       /\ doc.autosuggest = TRUE
       /\ Len(w.store) = Len(store) + 1
       /\ Keeps(store, w.store)
       /\ Count(w.store, doc._id) = 1
       /\ Project(DocAt(w.store, doc._id), DOMAIN doc) = doc
       /\ split_id(inserts[1].res.id) = u
       /\ w.payee_map[name]._id = u
       /\ w.ret._id = u
       /\ again.exc = NoExc
       /\ again.calls = <<>>
       /\ again.ret._id = u

\* C5: get_or_create_payee of a name that is not cached and names no payee of
\* the active budget inserts exactly one document, of id
\* <budget_selector>_payee_<a uuid no document carries>, of that name, with
\* internal false and autosuggest true, caches the last segment of the id the
\* store answers under the name, and the next get_or_create_payee of the name
\* returns that id with no store call.
PayeeCreationRoundTrip ==
    [](\A name \in PayeeNames : PayeeUnknown(name) => PayeeCreatedOnce(name))

\* a payee is created in a connected budget
PayeeCreated ==
    \E name \in PayeeNames :
        /\ PayeeUnknown(name)
        /\ budget_selector # NoSelector
        /\ Len(CallsOf(get_or_create_payee(Here(NoFail), name), "insert")) = 1
        /\ get_or_create_payee(Here(NoFail), name).exc = NoExc

-----------------------------------------------------------------------------
(* C6 *)

\* the id of the parent of a split call names no document
ParentAbsent(c) == ~Has(store, TransactionId(c.this_id))

\* the account and the categories of the lines of a split call resolve in the
\* current state (a payee always does: it is created)
SplitResolves(c) ==
    /\ find_account(Here(NoFail), c.account_name).exc = NoExc
    /\ \A i \in 1..Len(c.transactions) :
          find_category(Here(NoFail), c.transactions[i].category_name).exc = NoExc

\* line t with its names replaced by the ids the session w resolved them to
ResolvedLine(t, w) ==
    [value |-> t.value, memo |-> t.memo,
     category |-> IF t.category_name \in Sentinels
                  THEN t.category_name
                  ELSE w.category_map[t.category_name]._id,
     payee |-> w.payee_map[t.payee_name]._id]

SplitBuilt(c) ==
    LET w == SaveSplitCall(Here(NoFail), c)
        id == TransactionId(c.this_id)
        parent == DocAt(w.store, id)
        saves == CallsOf(w, "save")
    IN /\ SplitResolves(c) => w.exc = NoExc
       /\ w.exc = NoExc =>
             /\ Len(saves) = 1
             /\ saves[1].doc._id = id
             /\ Count(w.store, id) = 1
             /\ Keeps(store, w.store)
             /\ Len(w.store) = Len(store) + 1 + Len(CallsOf(w, "insert"))
             /\ parent.category = "split"
             /\ Len(parent.splits) = Len(c.transactions)
             /\ \A i \in 1..Len(c.transactions) :
                   parent.splits[i] = ResolvedLine(c.transactions[i], w)

\* C6: a save_split call on a parent id that names no document, whose account
\* and line categories resolve, saves one parent document of category "split"
\* whose splits are the lines of the call, as many and in their order, each
\* with its value and memo and, in place of category_name and payee_name, the
\* category id (the name itself for a sentinel) and the payee id the session
\* resolved.
SplitConstruction ==
    [](\A c \in SplitCalls : ParentAbsent(c) => SplitBuilt(c))

\* a split of two lines, one of a sentinel category, is recorded
SplitRecorded ==
    \E c \in SplitCalls :
        /\ ParentAbsent(c)
        /\ Len(c.transactions) = 2
        /\ c.transactions[1].category_name = "Rent"
        /\ c.transactions[2].category_name = "incomeNextMonth"
        /\ SaveSplitCall(Here(NoFail), c).exc = NoExc
        /\ Len(CallsOf(SaveSplitCall(Here(NoFail), c), "save")) = 1

-----------------------------------------------------------------------------
(* C7 *)

\* name is not cached, and the query for it in the active budget is empty
Missing(map, type, name) ==
    /\ name \notin DOMAIN map
    /\ Matching(store, budget_selector \o <<type>>, name, {"_id"}) = <<>>

\* a resolution w that misses, and the next one of the same name
MissRaises(w, again, error, type, name) ==
    /\ w.exc = error
    /\ w.account_map = account_map
    /\ w.category_map = category_map
    /\ w.payee_map = payee_map
    /\ w.store = store
    /\ again.exc = error
    /\ Len(QueriesFor(again, type, name)) = 1

\* C7: find_account of a name that is not cached and that the query finds no
\* document for raises "Account not found" and leaves the caches as they
\* were, and the next find_account of the name queries the store again;
\* find_category does the same, with "Category not found", for a name that
\* is no sentinel.
MissLeavesCache ==
    [](/\ \A name \in AccountNames :
             Missing(account_map, "account", name) =>
                 LET w == find_account(Here(NoFail), name)
                 IN MissRaises(w, find_account(After(w), name), AccountNotFound,
                               "account", name)
       /\ \A name \in CategoryNames \ Sentinels :
             Missing(category_map, "category", name) =>
                 LET w == find_category(Here(NoFail), name)
                 IN MissRaises(w, find_category(After(w), name), CategoryNotFound,
                               "category", name))

\* an account and a category are missed by a session whose caches are in use
MissedWithCaches ==
    /\ account_map # EmptyMap
    /\ category_map # EmptyMap
    /\ Missing(account_map, "account", "Nonexistent")
    /\ Missing(category_map, "category", "Clothing")
    /\ find_account(Here(NoFail), "Nonexistent").exc = AccountNotFound
    /\ find_category(Here(NoFail), "Clothing").exc = CategoryNotFound

-----------------------------------------------------------------------------
(* C8 *)

ReadOnlyTypes == {"account", "category"}

\* the account and category documents of db
Resolved(db) == {db[i] : i \in {j \in 1..Len(db) : TypeOf(db[j]._id) \in ReadOnlyTypes}}

\* a method call that writes no account and no category
WritesNone(w) ==
    /\ Resolved(w.store) = Resolved(InitStore)
    /\ \A i \in 1..Len(w.calls) :
          w.calls[i].op \in {"insert", "save"} =>
              TypeOf(w.calls[i].doc._id) \notin ReadOnlyTypes

\* C8: in every state the session reaches, the account and category
\* documents of the database are those it started with, and no call of
\* connect_budget, find_account, find_category, get_or_create_payee,
\* save_transaction, save_split or save_transfer, whether it returns or
\* raises, inserts or saves a document of type account or category.
AccountsCategoriesReadOnly ==
    [](/\ Resolved(store) = Resolved(InitStore)
       /\ \A name \in BudgetNames : WritesNone(connect_budget(Here(NoFail), name))
       /\ \A name \in AccountNames : WritesNone(find_account(Here(NoFail), name))
       /\ \A name \in CategoryNames : WritesNone(find_category(Here(NoFail), name))
       /\ \A name \in PayeeNames : WritesNone(get_or_create_payee(Here(NoFail), name))
       /\ \A c \in TransactionCalls : WritesNone(SaveTransactionCall(Here(NoFail), c))
       /\ \A c \in SplitCalls : WritesNone(SaveSplitCall(Here(NoFail), c))
       /\ \A c \in TransferCalls : WritesNone(SaveTransferCall(Here(NoFail), c)))

\* transactions and a payee were written, accounts and categories resolved
\* and missed
WrittenAroundAccounts ==
    /\ account_map # EmptyMap
    /\ category_map # EmptyMap
    /\ \E i \in 1..Len(store) : TypeOf(store[i]._id) = "transaction"
    /\ \E i \in 1..Len(store) : TypeOf(store[i]._id) = "payee" /\ store[i].name = "Cafe"
    /\ find_account(Here(NoFail), "Nonexistent").exc = AccountNotFound
    /\ Resolved(store) = Resolved(InitStore)

-----------------------------------------------------------------------------
(* C9 *)

\* the budget documents of the database of exactly this name, in store order
BudgetsNamed(name) ==
    SelectSeq(store, LAMBDA d : Len(d._id) = 2 /\ d._id[1] = "budget" /\ d.name = name)

Connects(name) ==
    LET w == connect_budget(Here(NoFail), name)
        budgets == BudgetsNamed(name)
    IN IF budgets = <<>>
       THEN w.exc = BudgetNotFound /\ w.budget_selector = budget_selector
       ELSE w.exc = NoExc /\ w.budget_selector = <<"b">> \o Tail(budgets[1]._id)

\* the id a store call is about: the prefix a query selects, the id a get
\* names, the id of the document an insert or a save carries
CallId(call) ==
    IF call.op = "query" THEN call.prefix
    ELSE IF call.op = "get_doc" THEN call.id
    ELSE call.doc._id

\* a method call that leaves the selector, and builds every id on it
UsesSelector(w) ==
    /\ w.budget_selector = budget_selector
    /\ \A i \in 1..Len(w.calls) :
          LET id == CallId(w.calls[i])
          IN /\ Len(id) = Len(budget_selector) + (IF w.calls[i].op = "query" THEN 1 ELSE 2)
             /\ SubSeq(id, 1, Len(budget_selector)) = budget_selector

\* C9: connect_budget(name) raises "Budget not found" and leaves
\* budget_selector when no budget document has exactly that name; otherwise
\* budget_selector becomes the id of the first such document with `budget`
\* replaced by `b`.  Every other method leaves budget_selector, and every id
\* it queries, gets, inserts or saves is built on it: the selector changes
\* with a connect_budget that succeeds, and with nothing else.
ConnectBudgetSelects ==
    /\ [](/\ \A name \in BudgetNames : Connects(name)
          /\ \A name \in AccountNames : UsesSelector(find_account(Here(NoFail), name))
          /\ \A name \in CategoryNames : UsesSelector(find_category(Here(NoFail), name))
          /\ \A name \in PayeeNames : UsesSelector(get_or_create_payee(Here(NoFail), name))
          /\ \A c \in TransactionCalls : UsesSelector(SaveTransactionCall(Here(NoFail), c))
          /\ \A c \in SplitCalls : UsesSelector(SaveSplitCall(Here(NoFail), c))
          /\ \A c \in TransferCalls : UsesSelector(SaveTransferCall(Here(NoFail), c)))
    /\ [][budget_selector' # budget_selector =>
             \E name \in BudgetNames :
                 /\ connect_budget(Here(NoFail), name).exc = NoExc
                 /\ budget_selector' = connect_budget(Here(NoFail), name).budget_selector]_vars

\* a second budget is connected and a transaction recorded in it; a name of
\* two budgets selects the first, and a name of no budget is refused
ReconnectedAndRecorded ==
    /\ budget_selector = <<"b", "u2">>
    /\ \E i \in 1..Len(store) :
          /\ TypeOf(store[i]._id) = "transaction"
          /\ SubSeq(store[i]._id, 1, 2) = <<"b", "u2">>
    /\ Len(BudgetsNamed("Home")) = 2
    /\ connect_budget(Here(NoFail), "Home").budget_selector = <<"b", "u1">>
    /\ connect_budget(Here(NoFail), "Shop").exc = BudgetNotFound
    /\ connect_budget(Here(NoFail), "Shop").budget_selector = <<"b", "u2">>

-----------------------------------------------------------------------------
(* C10 *)

NoActiveBudget == "NoActiveBudget"

\* a method call that is refused before it does anything
Rejected(w) ==
    /\ w.exc = NoActiveBudget
    /\ w.calls = <<>>
    /\ w.account_map = account_map
    /\ w.category_map = category_map
    /\ w.payee_map = payee_map
    /\ w.store = store

\* C10: while no connect_budget has succeeded (budget_selector is as __init__
\* left it), every call of find_account, find_category, get_or_create_payee,
\* save_transaction, save_split and save_transfer is refused as
\* NoActiveBudget, with no store call and no cache entry added.
RejectedBeforeConnect ==
    budget_selector = NoSelector =>
        /\ \A name \in AccountNames : Rejected(find_account(Here(NoFail), name))
        /\ \A name \in CategoryNames : Rejected(find_category(Here(NoFail), name))
        /\ \A name \in PayeeNames : Rejected(get_or_create_payee(Here(NoFail), name))
        /\ \A c \in TransactionCalls : Rejected(SaveTransactionCall(Here(NoFail), c))
        /\ \A c \in SplitCalls : Rejected(SaveSplitCall(Here(NoFail), c))
        /\ \A c \in TransferCalls : Rejected(SaveTransferCall(Here(NoFail), c))

\* a payee is created and cached by a session that never connected a budget
PayeeCreatedBeforeConnect ==
    /\ budget_selector = NoSelector
    /\ "Cafe" \in DOMAIN payee_map
    /\ \E i \in 1..Len(store) : store[i]._id = <<"", "payee", payee_map["Cafe"]._id>>

-----------------------------------------------------------------------------
(* C11 *)

NotFoundErrors == {AccountNotFound, CategoryNotFound}

\* the transaction documents of db
Transactions(db) == {db[i] : i \in {j \in 1..Len(db) : TypeOf(db[j]._id) = "transaction"}}

\* a record call that raised NotFound saved nothing and created no account
\* and no category
NothingRecorded(w) ==
    w.exc \in NotFoundErrors =>
        /\ CallsOf(w, "save") = <<>>
        /\ Transactions(w.store) = Transactions(store)
        /\ Resolved(w.store) = Resolved(store)
        /\ \A i \in 1..Len(w.calls) :
              w.calls[i].op = "insert" => TypeOf(w.calls[i].doc._id) = "payee"

\* C11: a save_transaction, save_split or save_transfer call that raises
\* "Account not found" or "Category not found" has issued no save, leaves
\* the transaction documents of the database as they were (for a transfer:
\* neither leg is written), and has inserted no account and no category; this
\* also when the error stands for a query that failed in transport.
NotFoundIsFatal ==
    [](/\ \A c \in TransactionCalls : NothingRecorded(SaveTransactionCall(Here(NoFail), c))
       /\ \A c \in SplitCalls : NothingRecorded(SaveSplitCall(Here(NoFail), c))
       /\ \A c \in TransferCalls : NothingRecorded(SaveTransferCall(Here(NoFail), c))
       /\ \A fails \in FailSets :
             /\ \A c \in TransactionsTaken :
                   NothingRecorded(SaveTransactionCall(Here(fails), c))
             /\ \A c \in SplitsTaken : NothingRecorded(SaveSplitCall(Here(fails), c))
             /\ \A c \in TransfersTaken :
                   NothingRecorded(SaveTransferCall(Here(fails), c)))

\* a split misses the category of its second line after it has created the
\* payee of its first, and a transfer misses its to account
RecordMissesName ==
    /\ \E c \in SplitCalls :
          /\ ParentAbsent(c)
          /\ SaveSplitCall(Here(NoFail), c).exc = CategoryNotFound
          /\ CallsOf(SaveSplitCall(Here(NoFail), c), "insert") # <<>>
    /\ \E c \in TransferCalls :
          /\ LegsAbsent(c)
          /\ find_account(Here(NoFail), c.from_account_name).exc = NoExc
          /\ SaveTransferCall(Here(NoFail), c).exc = AccountNotFound

-----------------------------------------------------------------------------
(* C12 *)

\* a store call of the method call raised in transport
RaisedIn(w) == \E i \in 1..Len(w.calls) : "raised" \in DOMAIN w.calls[i]

\* the transport error reaches the caller as it is, and the call that raised
\* is the last the method issued
PropagatesUnchanged(w) ==
    RaisedIn(w) =>
        /\ w.exc = TransportError
        /\ \A i \in 1..Len(w.calls) : "raised" \in DOMAIN w.calls[i] => i = Len(w.calls)

\* C12: a transport error raised by a store call inside connect_budget,
\* find_account, find_category, get_or_create_payee, save_transaction,
\* save_split or save_transfer reaches the caller as that error, never as
\* "Account not found", "Category not found" or another error, and the call
\* that raised is not issued again.
TransportErrorsPropagate ==
    \A fails \in FailSets :
        /\ \A name \in BudgetNames : PropagatesUnchanged(connect_budget(Here(fails), name))
        /\ \A name \in AccountNames : PropagatesUnchanged(find_account(Here(fails), name))
        /\ \A name \in CategoryNames : PropagatesUnchanged(find_category(Here(fails), name))
        /\ \A name \in PayeeNames : PropagatesUnchanged(get_or_create_payee(Here(fails), name))
        /\ \A c \in TransactionsTaken : PropagatesUnchanged(SaveTransactionCall(Here(fails), c))
        /\ \A c \in SplitsTaken : PropagatesUnchanged(SaveSplitCall(Here(fails), c))
        /\ \A c \in TransfersTaken : PropagatesUnchanged(SaveTransferCall(Here(fails), c))

\* the query for an account of the connected budget fails in transport, and
\* find_account raises "Account not found"
TransportErrorReadAsNotFound ==
    /\ budget_selector = <<"b", "u1">>
    /\ "Checking" \notin DOMAIN account_map
    /\ Matching(store, budget_selector \o <<"account">>, "Checking", {"_id"}) # <<>>
    /\ RaisedIn(find_account(Here({1}), "Checking"))
    /\ find_account(Here({1}), "Checking").exc = AccountNotFound

-----------------------------------------------------------------------------
(* C13 *)

\* both probes of a transfer call were answered
Probed(w) ==
    Len(SelectSeq(w.calls, LAMBDA call : call.op = "get_doc" /\ "res" \in DOMAIN call)) = 2

\* the saves a method call issued for the document id
SavesOf(w, id) == SelectSeq(w.calls, LAMBDA call : call.op = "save" /\ call.doc._id = id)

\* the outcome of a leg follows its own probe: nothing for an id that names
\* a document, the answer of its save otherwise
LegOutcome(w, id, outcome) ==
    IF Has(store, id)
    THEN SavesOf(w, id) = <<>> /\ outcome = None
    ELSE Len(SavesOf(w, id)) = 1 /\ outcome = SavesOf(w, id)[1].res

LegsIndependent(w, c) ==
    Probed(w) =>
        /\ w.exc = NoExc
        /\ DOMAIN w.ret = {"from", "to"}
        /\ LegOutcome(w, TransactionId(c.from_id), w.ret.from)
        /\ LegOutcome(w, TransactionId(c.to_id), w.ret.to)

\* C13: once save_transfer has probed both ids, each leg is decided on its
\* own probe (a leg whose id names a document is skipped with an empty
\* outcome, the other is still saved), and the call always returns the two
\* outcomes (from, to), also when one leg was written and the save of the
\* other failed.
TransferLegsIndependent ==
    /\ \A c \in TransferCalls : LegsIndependent(SaveTransferCall(Here(NoFail), c), c)
    /\ \A fails \in FailSets : \A c \in TransfersTaken :
          LegsIndependent(SaveTransferCall(Here(fails), c), c)

\* the from leg is written, the save of the to leg raises, and the caller
\* gets the exception and no outcome of either leg
FromLegOutcomeLost ==
    \E fails \in FailSets : \E c \in TransfersTaken :
        LET w == SaveTransferCall(Here(fails), c)
        IN /\ LegsAbsent(c)
           /\ Len(CallsOf(w, "save")) = 2
           /\ Has(w.store, TransactionId(c.from_id))
           /\ ~Has(w.store, TransactionId(c.to_id))
           /\ w.exc = TransportError
           /\ w.ret = None

\* what holds of the calls whose store calls all succeed
LegsIndependentWithoutFailure ==
    [](\A c \in TransferCalls : LegsIndependent(SaveTransferCall(Here(NoFail), c), c))

-----------------------------------------------------------------------------
(* C14 *)

\* the payee documents of db of this name
PayeesNamed(db, name) ==
    {i \in 1..Len(db) : TypeOf(db[i]._id) = "payee" /\ db[i].name = name}

\* the payee inserts of a method call for this name
InsertsOf(w, name) ==
    SelectSeq(w.calls, LAMBDA call : call.op = "insert" /\ call.doc.name = name)

\* a method call inserts a payee at most once per name, only for a name that
\* is neither cached nor a payee of the active budget, and caches it
InsertsOnMissOnly(w) ==
    \A name \in PayeeNames :
        /\ Len(InsertsOf(w, name)) <= 1
        /\ InsertsOf(w, name) # <<>> =>
              /\ PayeeUnknown(name)
              /\ name \in DOMAIN w.payee_map
              /\ w.payee_map[name]._id = split_id(InsertsOf(w, name)[1].doc._id)

\* C14: while the store calls succeed, the session inserts at most one payee
\* document per name: every get_or_create_payee, save_transaction and
\* save_split call inserts a payee at most once per name, only when the name
\* is neither cached nor found by the query in the active budget, and caches
\* it; the database never holds more than one payee of a name beyond those
\* it started with.
PayeeInsertedOnce ==
    [](/\ \A name \in PayeeNames :
             /\ Cardinality(PayeesNamed(store, name))
                   <= Cardinality(PayeesNamed(InitStore, name)) + 1
             /\ InsertsOnMissOnly(get_or_create_payee(Here(NoFail), name))
       /\ \A c \in TransactionCalls : InsertsOnMissOnly(SaveTransactionCall(Here(NoFail), c))
       /\ \A c \in SplitCalls : InsertsOnMissOnly(SaveSplitCall(Here(NoFail), c)))

\* the session created the payee Cafe in the connected budget; a split that
\* names it on the parent and on a line inserts nothing, and Shop, a payee of
\* the budget that is not cached, is found and not inserted
PayeeNotInsertedAgain ==
    /\ budget_selector = <<"b", "u1">>
    /\ "Cafe" \in DOMAIN payee_map
    /\ \E i \in PayeesNamed(store, "Cafe") :
          store[i]._id = budget_selector \o <<"payee", payee_map["Cafe"]._id>>
    /\ "Shop" \notin DOMAIN payee_map
    /\ get_or_create_payee(Here(NoFail), "Shop").exc = NoExc
    /\ CallsOf(get_or_create_payee(Here(NoFail), "Shop"), "insert") = <<>>
    /\ \E c \in SplitCalls :
          /\ c.payee_name = "Cafe"
          /\ c.transactions = <<Line("Rent", "Cafe")>>
          /\ SaveSplitCall(Here(NoFail), c).exc = NoExc
          /\ CallsOf(SaveSplitCall(Here(NoFail), c), "insert") = <<>>

-----------------------------------------------------------------------------
(* C15 *)

\* the segment after the last underscore of a store id
Suffix(id) == id[Len(id)]

\* the bare ids of the documents of db of one type
BareIds(db, type) ==
    {Suffix(db[i]._id) : i \in {j \in 1..Len(db) : TypeOf(db[j]._id) = type}}

\* id is the bare id of a document of db of this type and name
BareIdOf(db, type, name, id) ==
    \E i \in 1..Len(db) :
        /\ TypeOf(db[i]._id) = type
        /\ db[i].name = name
        /\ id = Suffix(db[i]._id)

\* every entry of a cache holds the bare id of a document of its name
CacheBare(map, db, type) == \A name \in DOMAIN map : BareIdOf(db, type, name, map[name]._id)

\* a resolution that succeeds returns and caches the bare id of a document
\* of the name; when the name was not cached, of the first document the
\* query matches, or of the payee it inserted
ResolvesBare(w, map, map2, type, name) ==
    w.exc = NoExc =>
        /\ BareIdOf(w.store, type, name, w.ret._id)
        /\ map2[name]._id = w.ret._id
        /\ name \notin DOMAIN map =>
              LET docs == Matching(store, budget_selector \o <<type>>, name, {"_id"})
              IN IF docs # <<>>
                 THEN w.ret._id = Suffix(docs[1]._id)
                 ELSE w.ret._id = Suffix(CallsOf(w, "insert")[1].res.id)

\* the references of a transaction document are bare ids
RefsBare(doc, db) ==
    /\ doc.account \in BareIds(db, "account")
    /\ "payee" \in DOMAIN doc => doc.payee \in BareIds(db, "payee")
    /\ "category" \in DOMAIN doc =>
          doc.category \in BareIds(db, "category") \cup Sentinels \cup {"split", JNull}
    /\ "splits" \in DOMAIN doc =>
          \A i \in 1..Len(doc.splits) :
              /\ doc.splits[i].payee \in BareIds(db, "payee")
              /\ doc.splits[i].category \in BareIds(db, "category") \cup Sentinels

\* the documents a method call saves reference bare ids
SavesBare(w) ==
    \A i \in 1..Len(w.calls) : w.calls[i].op = "save" => RefsBare(w.calls[i].doc, w.store)

\* C15: find_account, find_category (of a name that is no sentinel) and
\* get_or_create_payee return and cache the segment after the last
\* underscore of the id of the store document they resolved the name to
\* (cached before, first match of the query, or inserted payee); so every
\* id in account_map, category_map and payee_map is such a bare id, and so
\* is every account, payee and category reference of every transaction
\* document that is saved or stored.
ResolvedIdsBare ==
    [](/\ CacheBare(account_map, store, "account")
       /\ CacheBare(category_map, store, "category")
       /\ CacheBare(payee_map, store, "payee")
       /\ \A i \in 1..Len(store) :
             TypeOf(store[i]._id) = "transaction" => RefsBare(store[i], store)
       /\ \A name \in AccountNames :
             LET w == find_account(Here(NoFail), name)
             IN ResolvesBare(w, account_map, w.account_map, "account", name)
       /\ \A name \in CategoryNames \ Sentinels :
             LET w == find_category(Here(NoFail), name)
             IN ResolvesBare(w, category_map, w.category_map, "category", name)
       /\ \A name \in PayeeNames :
             LET w == get_or_create_payee(Here(NoFail), name)
             IN ResolvesBare(w, payee_map, w.payee_map, "payee", name)
       /\ \A c \in TransactionCalls : SavesBare(SaveTransactionCall(Here(NoFail), c))
       /\ \A c \in SplitCalls : SavesBare(SaveSplitCall(Here(NoFail), c))
       /\ \A c \in TransferCalls : SavesBare(SaveTransferCall(Here(NoFail), c)))

\* the three caches hold bare ids of a budget, a payee among them that the
\* session created, and a split that references them is stored
BareIdsRecorded ==
    /\ "Checking" \in DOMAIN account_map /\ account_map["Checking"]._id = "a1"
    /\ "Rent" \in DOMAIN category_map /\ category_map["Rent"]._id = "c1"
    /\ "Shop" \in DOMAIN payee_map /\ payee_map["Shop"]._id = "p1"
    /\ "Cafe" \in DOMAIN payee_map /\ payee_map["Cafe"]._id = "y1"
    /\ \E i \in 1..Len(store) :
          /\ TypeOf(store[i]._id) = "transaction"
          /\ "splits" \in DOMAIN store[i]
          /\ store[i].account = "a1"
          /\ store[i].splits[1].category = "c1"
          /\ store[i].splits[1].payee = "y1"

-----------------------------------------------------------------------------
(* Two sessions on one database: get_or_create_payee, one store call a step *)

\* the world a peer session makes a store call in
PeerWorld(p) == World(store, EmptyMap, EmptyMap, p.payee_map, p.budget_selector, NoFail)

\* the session of the model stands by
SessionIdle == UNCHANGED <<account_map, category_map, payee_map, budget_selector>>

\* connect_budget, called by a peer between two resolutions
PeerConnectBudget(s) ==
    /\ peers[s].pc = "idle"
    /\ \E name \in BudgetNames :
          LET w == connect_budget(PeerWorld(peers[s]), name)
          IN peers' = [peers EXCEPT ![s].budget_selector = w.budget_selector]
    /\ store' = store
    /\ SessionIdle

\* get_or_create_payee of a name the peer has not cached, up to the answer of
\* find_payee: a payee that is found is cached, and the call returns;
\* otherwise the insert is still to come
PeerFindPayee(s) ==
    /\ peers[s].pc = "idle"
    /\ \E name \in PayeeNames :
          /\ name \notin DOMAIN peers[s].payee_map
          /\ LET w1 == find_payee(PeerWorld(peers[s]), name)
                 found == Put(w1.ret[1], "_id", split_id(w1.ret[1]._id))
             IN peers' = IF w1.ret # <<>>
                         THEN [peers EXCEPT ![s].payee_map = Put(@, name, found)]
                         ELSE [peers EXCEPT ![s].pc = "missed", ![s].name = name]
    /\ store' = store
    /\ SessionIdle

\* the rest of get_or_create_payee: insert_payee, and the created payee is
\* cached (an answer without 'id' raises KeyError, and nothing is cached)
PeerInsertPayee(s) ==
    /\ peers[s].pc = "missed"
    /\ LET name == peers[s].name
           w2 == insert_payee(PeerWorld(peers[s]), name)
           created == Put(w2.ret, "_id", split_id(w2.ret.id))
       IN /\ store' = w2.store
          /\ peers' = IF "id" \in DOMAIN w2.ret
                      THEN [peers EXCEPT ![s].payee_map = Put(@, name, created),
                                         ![s].pc = "idle", ![s].name = JNull]
                      ELSE [peers EXCEPT ![s].pc = "idle", ![s].name = JNull]
    /\ SessionIdle

PeersNext ==
    \E s \in Sessions :
        \/ PeerConnectBudget(s)
        \/ PeerFindPayee(s)
        \/ PeerInsertPayee(s)

TwoSessions == Init /\ [][PeersNext]_vars

-----------------------------------------------------------------------------
(* C16 *)

\* the payee documents of db of this name under this selector
PayeesUnder(db, sel, name) ==
    {i \in PayeesNamed(db, name) : SubSeq(db[i]._id, 1, Len(sel)) = sel /\ Len(db[i]._id) = Len(sel) + 2}

\* both peers have queried this name under one selector and missed
BothMissed(name) ==
    /\ \A s \in Sessions : peers[s].pc = "missed" /\ peers[s].name = name
    /\ peers["s1"].budget_selector = peers["s2"].budget_selector

\* the two inserts that follow are both accepted, and leave two payees of the
\* name, of different ids, under the selector
BothInserted(name) ==
    LET sel == peers["s1"].budget_selector
        w1 == insert_payee(PeerWorld(peers["s1"]), name)
        w2 == insert_payee([PeerWorld(peers["s2"]) EXCEPT !.store = w1.store], name)
    IN /\ "id" \in DOMAIN w1.ret
       /\ "id" \in DOMAIN w2.ret
       /\ w1.ret.id # w2.ret.id
       /\ Cardinality(PayeesUnder(w2.store, sel, name))
             = Cardinality(PayeesUnder(store, sel, name)) + 2

\* C16: two sessions on one database that run get_or_create_payee for the
\* same name can both query and miss before either inserts; whenever they
\* have, each insert is accepted (nothing in the session or in the request
\* excludes the second), and two payee documents of that name, of different
\* ids, are left under the same budget selector.
PayeeRaceDuplicates ==
    [](\A name \in PayeeNames : BothMissed(name) => BothInserted(name))

\* two payees named Cafe of different ids are in the connected budget, each
\* cached by the session that created it
DuplicatePayees ==
    /\ \A s \in Sessions :
          /\ peers[s].budget_selector = <<"b", "u1">>
          /\ peers[s].pc = "idle"
          /\ "Cafe" \in DOMAIN peers[s].payee_map
    /\ peers["s1"].payee_map["Cafe"]._id # peers["s2"].payee_map["Cafe"]._id
    /\ Cardinality(PayeesUnder(store, <<"b", "u1">>, "Cafe")) = 2

-----------------------------------------------------------------------------
(* C17 *)

\* the store answered a method call with a document of this type and name:
\* a query that matched, or, of a payee, an insert that was accepted
ResolvedIn(w, type, name) ==
    \E i \in 1..Len(w.calls) :
        LET call == w.calls[i]
        IN /\ "res" \in DOMAIN call
           /\ \/ /\ call.op = "query"
                 /\ call.prefix[Len(call.prefix)] = type
                 /\ call.name = name
                 /\ call.res # <<>>
              \/ /\ type = "payee"
                 /\ call.op = "insert"
                 /\ call.doc.name = name
                 /\ "id" \in DOMAIN call.res

\* a cache after a method call: every entry is kept with its id, and an
\* entry is new only for a name the call resolved
GrowsOnResolution(map, w, map2, type) ==
    /\ Kept(map, map2)
    /\ \A name \in DOMAIN map2 :
          IF name \in DOMAIN map THEN map2[name] = map[name] ELSE ResolvedIn(w, type, name)

CachesGrow(w) ==
    /\ GrowsOnResolution(account_map, w, w.account_map, "account")
    /\ GrowsOnResolution(category_map, w, w.category_map, "category")
    /\ GrowsOnResolution(payee_map, w, w.payee_map, "payee")

\* a method call that leaves the three caches as they were
CachesSame(w) ==
    /\ w.account_map = account_map
    /\ w.category_map = category_map
    /\ w.payee_map = payee_map

\* a resolution: a call that raises leaves the caches alone, one that
\* returns adds at most its own name to its own cache
ResolutionGrows(w, type, name) ==
    /\ CachesGrow(w)
    /\ w.exc # NoExc => CachesSame(w)
    /\ (DOMAIN w.account_map \ DOMAIN account_map) \subseteq (IF type = "account" THEN {name} ELSE {})
    /\ (DOMAIN w.category_map \ DOMAIN category_map) \subseteq (IF type = "category" THEN {name} ELSE {})
    /\ (DOMAIN w.payee_map \ DOMAIN payee_map) \subseteq (IF type = "payee" THEN {name} ELSE {})

\* C17: whether its store calls succeed or one of them fails in transport,
\* no method call removes an entry of account_map, category_map or payee_map
\* or changes it; connect_budget, to the same or another budget, found or
\* not, leaves the three caches exactly as they were; a resolution that
\* raises leaves them as they were; and an entry is added only for a name
\* the store answered in that call with a matching document (or, of a
\* payee, an accepted insert).
CachesMonotone ==
    [](\A fails \in FailSets \cup {NoFail} :
          /\ \A name \in BudgetNames : CachesSame(connect_budget(Here(fails), name))
          /\ \A name \in AccountNames :
                ResolutionGrows(find_account(Here(fails), name), "account", name)
          /\ \A name \in CategoryNames :
                ResolutionGrows(find_category(Here(fails), name), "category", name)
          /\ \A name \in PayeeNames :
                ResolutionGrows(get_or_create_payee(Here(fails), name), "payee", name)
          /\ \A c \in IF fails = NoFail THEN TransactionCalls ELSE TransactionsTaken :
                CachesGrow(SaveTransactionCall(Here(fails), c))
          /\ \A c \in IF fails = NoFail THEN SplitCalls ELSE SplitsTaken :
                CachesGrow(SaveSplitCall(Here(fails), c))
          /\ \A c \in IF fails = NoFail THEN TransferCalls ELSE TransfersTaken :
                CachesGrow(SaveTransferCall(Here(fails), c)))

\* the caches hold names of budget u1 while the session is connected to
\* budget u2: connecting again, to a budget that is found, to one that is
\* not, and through a query that fails, leaves them, and so does a
\* resolution that misses
CachesOutliveBudget ==
    /\ budget_selector = <<"b", "u2">>
    /\ account_map # EmptyMap /\ category_map # EmptyMap /\ payee_map # EmptyMap
    /\ connect_budget(Here(NoFail), "Home").budget_selector = <<"b", "u1">>
    /\ connect_budget(Here(NoFail), "Shop").exc = BudgetNotFound
    /\ connect_budget(Here({1}), "Work").exc = TransportError
    /\ "Savings" \notin DOMAIN account_map
    /\ find_account(Here(NoFail), "Savings").exc = AccountNotFound

-----------------------------------------------------------------------------
(* C18 *)

\* the values uuid4 draws for a payee
PayeeDraws == {PayeeUuids[k] : k \in 1..Len(PayeeUuids)}

\* <selector>_<type>_<uuid> on the selector of the session, for one of uuids
Namespaced(id, type, uuids) ==
    \E u \in uuids : id = budget_selector \o <<type, u>>

\* the get_doc calls of a method call, before call i, that found id absent
ProbedAbsent(w, i, id) ==
    {j \in 1..(i - 1) : /\ w.calls[j].op = "get_doc"
                        /\ w.calls[j].id = id
                        /\ "res" \in DOMAIN w.calls[j]
                        /\ IsAbsent(w.calls[j].res)}

\* the documents a method call writes: an insert is of a payee, a save of a
\* transaction drawn for the call; both are named on the selector of the
\* session; a save follows a probe of the same id, and every probe is of an
\* id the call builds; when the call returns, each id probed absent was saved
WritesNamespaced(w, uuids) ==
    /\ \A i \in 1..Len(w.calls) :
          LET call == w.calls[i]
          IN /\ call.op = "insert" => Namespaced(call.doc._id, "payee", PayeeDraws)
             /\ call.op = "get_doc" => Namespaced(call.id, "transaction", uuids)
             /\ call.op = "save" =>
                   /\ Namespaced(call.doc._id, "transaction", uuids)
                   /\ ProbedAbsent(w, i, call.doc._id) # {}
    /\ w.exc = NoExc =>
          \A j \in 1..Len(w.calls) :
              (/\ w.calls[j].op = "get_doc"
               /\ j \in ProbedAbsent(w, Len(w.calls) + 1, w.calls[j].id)) =>
                  \E i \in (j + 1)..Len(w.calls) :
                      w.calls[i].op = "save" /\ w.calls[i].doc._id = w.calls[j].id

\* what the session wrote into the database is named <b_budget>_<type>_<uuid>
StoredNamespaced ==
    \A i \in 1..Len(store) :
        LET id == store[i]._id
        IN Has(InitStore, id) \/
              /\ Len(id) = 3 \/ (Len(id) = 4 /\ id[1] = "b")
              /\ \/ TypeOf(id) = "payee" /\ id[Len(id)] \in PayeeDraws
                 \/ TypeOf(id) = "transaction" /\ id[Len(id)] \in Uuids

\* C18: every document a method call inserts (a payee) or saves (a
\* transaction, a split parent, the two legs of a transfer) is named
\* budget_selector + '_' + type + '_' + uuid, on the selector the session
\* has at the call and with a uuid drawn for the call; every id that is
\* saved was probed by get_doc earlier in the same call and found absent,
\* and every id a call that returns found absent is saved by it; this also
\* when a store call fails in transport.
WrittenIdsNamespaced ==
    [](/\ StoredNamespaced
       /\ \A fails \in FailSets \cup {NoFail} :
             /\ \A name \in PayeeNames :
                   WritesNamespaced(get_or_create_payee(Here(fails), name), {})
             /\ \A c \in IF fails = NoFail THEN TransactionCalls ELSE TransactionsTaken :
                   WritesNamespaced(SaveTransactionCall(Here(fails), c), {c.this_id})
             /\ \A c \in IF fails = NoFail THEN SplitCalls ELSE SplitsTaken :
                   WritesNamespaced(SaveSplitCall(Here(fails), c), {c.this_id})
             /\ \A c \in IF fails = NoFail THEN TransferCalls ELSE TransfersTaken :
                   WritesNamespaced(SaveTransferCall(Here(fails), c), {c.from_id, c.to_id}))

\* a payee and the two legs of a transfer were written under budget u1; the
\* session is now on budget u2, where a transaction of a drawn id is probed
\* and saved under the new selector
WrittenUnderTwoSelectors ==
    /\ budget_selector = <<"b", "u2">>
    /\ Has(store, <<"b", "u1", "payee", "y1">>)
    /\ Has(store, <<"b", "u1", "transaction", "x1">>)
    /\ Has(store, <<"b", "u1", "transaction", "x2">>)
    /\ "transfer" \in DOMAIN DocAt(store, <<"b", "u1", "transaction", "x1">>)
    /\ \E c \in TransactionCalls :
          LET w == SaveTransactionCall(Here(NoFail), c)
          IN /\ w.exc = NoExc
             /\ Len(CallsOf(w, "save")) = 1
             /\ CallsOf(w, "save")[1].doc._id = <<"b", "u2", "transaction", c.this_id>>

-----------------------------------------------------------------------------
(* C19 *)

\* what a probe may answer: nothing, the error body of a missing document,
\* a body of a revision and no _id, and a document
ProbeResults ==
    {EmptyMap, [error |-> "not_found", reason |-> "missing"], [_rev |-> 1],
     [_rev |-> 2, value |-> 500], [_id |-> TransactionId("x1"), _rev |-> 1]}

\* a transaction, a split parent and the two legs of a transfer, as the
\* record methods build them for a drawn id
BuiltDocs ==
    UNION {{TransactionDoc(TransactionId(u), 500, "a1", "p1", "2018-05-26", "c1", "memo"),
            SplitDoc(TransactionId(u), 500, "a1", "p1", "2018-05-26", "memo", <<>>),
            FromDoc(TransactionId(u), 500, "a1", "2018-05-26", "memo", JNull, "x2"),
            ToDoc(TransactionId(u), 500, "a2", "2018-05-26", "memo", "x1")} : u \in Uuids}

\* the branch on the probe result: an absent transaction is saved once, as
\* it was built, with the revision of the probe result and no other
RevisionCarried(tr, doc) ==
    LET w == SaveIfAbsent(Here(NoFail), tr, doc)
        saves == CallsOf(w, "save")
    IN IF "_id" \in DOMAIN tr THEN saves = <<>>
       ELSE /\ Len(w.calls) = 1 /\ Len(saves) = 1
            /\ Drop(saves[1].doc, "_rev") = doc
            /\ IF "_rev" \in DOMAIN tr
               THEN "_rev" \in DOMAIN saves[1].doc /\ saves[1].doc._rev = tr._rev
               ELSE "_rev" \notin DOMAIN saves[1].doc

\* the answer of the probe of id in a method call
ProbeOf(w, id) ==
    SelectSeq(w.calls, LAMBDA call : call.op = "get_doc" /\ call.id = id)[1].res

\* in a method call, every document that is saved carries the revision its
\* probe answered, and none when the probe answered none
SavesCarryProbedRevision(w) ==
    \A i \in 1..Len(w.calls) :
        w.calls[i].op = "save" =>
            LET doc == w.calls[i].doc
                tr == ProbeOf(w, doc._id)
            IN /\ "_id" \notin DOMAIN tr
               /\ ("_rev" \in DOMAIN doc) = ("_rev" \in DOMAIN tr)
               /\ "_rev" \in DOMAIN doc => doc._rev = tr._rev

\* C19: in the absent branch of save_transaction, save_split and
\* save_transfer (each leg), the document that is saved is the document
\* built for the id with '_rev' set to the '_rev' of the probe result when
\* the probe result has one, and without '_rev' when it has none; a probe
\* result with '_id' saves nothing.  In every record call the saved
\* documents carry the revision their probe answered; the database answers
\* the probe of an absent id without a revision, so they carry none.
RevisionFromProbe ==
    [](/\ \A tr \in ProbeResults : \A doc \in BuiltDocs : RevisionCarried(tr, doc)
       /\ \A c \in TransactionCalls :
             SavesCarryProbedRevision(SaveTransactionCall(Here(NoFail), c))
       /\ \A c \in SplitCalls : SavesCarryProbedRevision(SaveSplitCall(Here(NoFail), c))
       /\ \A c \in TransferCalls :
             SavesCarryProbedRevision(SaveTransferCall(Here(NoFail), c)))

\* a transaction is stored under x1 with its revision, and x2 is absent: a
\* transaction recorded under x2 is saved without '_rev', and a probe
\* result of revision 1 and no '_id' has the document saved with '_rev' 1
RevisionAttached ==
    /\ budget_selector = <<"b", "u1">>
    /\ Has(store, TransactionId("x1")) /\ DocAt(store, TransactionId("x1"))._rev = 1
    /\ ~Has(store, TransactionId("x2"))
    /\ \E c \in TransactionCalls :
          LET w == SaveTransactionCall(Here(NoFail), c)
          IN /\ c.this_id = "x2"
             /\ Len(CallsOf(w, "save")) = 1
             /\ "_rev" \notin DOMAIN CallsOf(w, "save")[1].doc
             /\ "_rev" \in DOMAIN DocAt(w.store, TransactionId("x2"))
    /\ \E doc \in BuiltDocs :
          LET w == SaveIfAbsent(Here(NoFail), [_rev |-> 1], doc)
          IN /\ doc._id = TransactionId("x2")
             /\ CallsOf(w, "save")[1].doc._rev = 1

-----------------------------------------------------------------------------
(* C20 *)

\* a method call that issues no insert and no save, and leaves the database
StoreUntouched(w) ==
    /\ CallsOf(w, "insert") = <<>>
    /\ CallsOf(w, "save") = <<>>
    /\ w.store = store

\* C20: a save_split call whose parent transaction id is in the database
\* issues no insert and no save and leaves the database as it was, and when
\* it returns it returns nothing.
SplitOnExistingParentIsNoOp ==
    \A c \in SplitCalls :
        ~ParentAbsent(c) =>
            LET w == SaveSplitCall(Here(NoFail), c)
            IN StoreUntouched(w) /\ (w.exc = NoExc => w.ret = None)

\* the parent id of a split is taken, its account resolves and the budget
\* has no payee Cafe: the call returns nothing without raising, and has
\* inserted the payee Cafe
SplitOnExistingParentInsertsPayee ==
    \E c \in SplitCalls :
        LET w == SaveSplitCall(Here(NoFail), c)
        IN /\ ~ParentAbsent(c)
           /\ c.payee_name = "Cafe" /\ c.transactions = <<>>
           /\ PayeeUnknown("Cafe")
           /\ w.exc = NoExc /\ w.ret = None
           /\ CallsOf(w, "save") = <<>>
           /\ Len(CallsOf(w, "insert")) = 1
           /\ Len(w.store) = Len(store) + 1
           /\ PayeesNamed(w.store, "Cafe") # {}

-----------------------------------------------------------------------------
(* C21 *)

\* the places of the store calls of one kind in a method call
PlacesOf(w, op) == {i \in 1..Len(w.calls) : w.calls[i].op = op}

\* the store calls of a transfer in their order: queries, then the probe of
\* the from id and the probe of the to id, then the save of the from leg and
\* the save of the to leg; no insert, and no call after one that raised
TransferOrdered(w, c) ==
    LET from_id_transaction == TransactionId(c.from_id)
        to_id_transaction == TransactionId(c.to_id)
        probes == CallsOf(w, "get_doc")
        saves == CallsOf(w, "save")
    IN /\ PlacesOf(w, "insert") = {}
       /\ \A i \in PlacesOf(w, "query") : \A j \in PlacesOf(w, "get_doc") : i < j
       /\ \A i \in PlacesOf(w, "get_doc") : \A j \in PlacesOf(w, "save") : i < j
       /\ Len(probes) <= 2
       /\ Len(probes) >= 1 => probes[1].id = from_id_transaction
       /\ Len(probes) = 2 => probes[2].id = to_id_transaction
       /\ saves # <<>> => Len(probes) = 2 /\ "res" \in DOMAIN probes[2]
       /\ Len(saves) <= 2
       /\ Len(saves) = 2 =>
             saves[1].doc._id = from_id_transaction /\ saves[2].doc._id = to_id_transaction
       /\ \A i \in 1..Len(w.calls) : "raised" \in DOMAIN w.calls[i] => i = Len(w.calls)

\* what was in the database before a method call is in it after, as it was
NothingUndone(w) ==
    \A i \in 1..Len(store) :
        Has(w.store, store[i]._id) /\ DocAt(w.store, store[i]._id) = store[i]

\* a transfer whose from leg was saved and whose to leg save raised leaves
\* the from leg in the database, and no to leg
FromLegStays(w, c) ==
    LET saves == CallsOf(w, "save")
    IN (/\ Len(saves) = 2
        /\ "res" \in DOMAIN saves[1] /\ "ok" \in DOMAIN saves[1].res
        /\ "raised" \in DOMAIN saves[2]) =>
           /\ w.exc = TransportError
           /\ w.store = Added(store, Put(saves[1].doc, "_rev", 1))
           /\ ~Has(w.store, TransactionId(c.to_id))

\* the transfers a failing store call is looked at in: between accounts that
\* resolve or not, with a category that resolves, one that does not, or
\* none, under either draw of the two ids
TransfersOnFailure ==
    {c \in TransferCalls : /\ c.from_account_name \in {"Checking", "Nonexistent"}
                           /\ c.to_account_name \in {"Savings", "Nonexistent"}
                           /\ c.from_category_name \in {"Rent", "Clothing", JNull}}

\* C21: in every save_transfer call, whether its store calls succeed or one
\* of them fails in transport, the account and category queries come before
\* the probes, the probe of the from id before the probe of the to id, both
\* probes before any save, and the save of the from leg before the save of
\* the to leg; no call follows one that raised, and nothing that was in the
\* database is removed or changed: when the save of the to leg raises after
\* the from leg was saved, the from leg stays and the to leg is missing.
TransferOrderedNoRollback ==
    [](\A fails \in FailSets \cup {NoFail} :
          \A c \in IF fails = NoFail THEN TransferCalls ELSE TransfersOnFailure :
              LET w == SaveTransferCall(Here(fails), c)
              IN TransferOrdered(w, c) /\ NothingUndone(w) /\ FromLegStays(w, c))

\* the transactions of db whose id ends in u
TransactionsDrawn(db, u) ==
    {i \in 1..Len(db) : TypeOf(db[i]._id) = "transaction" /\ split_id(db[i]._id) = u}

\* the from leg of a transfer to x2 is in the database, and no transaction
\* was ever written under x2: the save of the to leg failed
OneLegPersisted ==
    /\ TransactionsDrawn(store, "x2") = {}
    /\ \E i \in TransactionsDrawn(store, "x1") :
          /\ "transfer" \in DOMAIN store[i]
          /\ store[i].transfer = "x2"
          /\ store[i].value = -500

-----------------------------------------------------------------------------
(* C22 *)

\* the transfer calls, and those that pass the empty string for the category
TransferCallsOrEmpty ==
    TransferCalls \cup {[c EXCEPT !.from_category_name = ""] : c \in TransferCalls}

\* the queries of a method call for the documents of one type
QueriesOfType(w, type) ==
    SelectSeq(w.calls, LAMBDA call : call.op = "query" /\ call.prefix[Len(call.prefix)] = type)

\* a transfer resolves its category when one is passed, and no other: the
\* from leg that is saved carries its id, or null when none is passed; the
\* to leg carries no category; no leg carries a payee, and no payee is
\* queried, inserted or cached
TransferCategorized(w, c) ==
    LET name == c.from_category_name
        categories == QueriesOfType(w, "category")
    IN /\ QueriesOfType(w, "payee") = <<>>
       /\ CallsOf(w, "insert") = <<>>
       /\ w.payee_map = payee_map
       /\ \A i \in 1..Len(categories) : Truthy(name) /\ categories[i].name = name
       /\ ~Truthy(name) => w.category_map = category_map
       /\ \A i \in 1..Len(w.calls) :
             w.calls[i].op = "save" =>
                 LET doc == w.calls[i].doc
                 IN /\ "payee" \notin DOMAIN doc
                    /\ IF doc._id = TransactionId(c.from_id)
                       THEN /\ "category" \in DOMAIN doc
                            /\ doc.category = IF Truthy(name)
                                              THEN find_category(Here(NoFail), name).ret._id
                                              ELSE JNull
                       ELSE "category" \notin DOMAIN doc

\* C22: save_transfer calls find_category only for a from_category_name that
\* is passed (neither None nor empty), and for that name; the from leg it
\* saves then carries the id find_category returns, and otherwise carries
\* category null, no category being queried or cached; the to leg carries no
\* category, neither leg carries a payee, and the call queries, inserts and
\* caches no payee.
TransferCategory ==
    [](\A c \in TransferCallsOrEmpty : TransferCategorized(SaveTransferCall(Here(NoFail), c), c))

\* a transfer with a category is stored, its from leg on category c1 and its
\* to leg on none; on a second budget a transfer without category saves a
\* from leg of category null, and no payee was ever resolved
TransferWithAndWithoutCategory ==
    /\ budget_selector = <<"b", "u2">>
    /\ payee_map = EmptyMap
    /\ Has(store, <<"b", "u1", "transaction", "x1">>)
    /\ Has(store, <<"b", "u1", "transaction", "x2">>)
    /\ DocAt(store, <<"b", "u1", "transaction", "x1">>).category = "c1"
    /\ "category" \notin DOMAIN DocAt(store, <<"b", "u1", "transaction", "x2">>)
    /\ \E c \in TransferCalls :
          LET w == SaveTransferCall(Here(NoFail), c)
          IN /\ c.from_category_name = JNull
             /\ Len(CallsOf(w, "save")) = 2
             /\ CallsOf(w, "save")[1].doc.category = JNull

-----------------------------------------------------------------------------
(* C23 *)

\* the step of save_transaction a store call belongs to: the account, the
\* payee, the category, the probe, the save
StepOf(call) ==
    IF call.op = "query"
    THEN CASE call.prefix[Len(call.prefix)] = "account" -> 1
           [] call.prefix[Len(call.prefix)] = "payee" -> 2
           [] call.prefix[Len(call.prefix)] = "category" -> 3
    ELSE IF call.op = "insert" THEN 2
    ELSE IF call.op = "get_doc" THEN 4
    ELSE 5

\* the store calls of a method call go through the steps in their order
StepsInOrder(w) ==
    \A i \in 1..Len(w.calls) : \A j \in (i + 1)..Len(w.calls) :
        StepOf(w.calls[i]) <= StepOf(w.calls[j])

\* a cache after a call holds what it held, and at most this name more
AtMostAdded(map, map2, name) ==
    /\ \A n \in DOMAIN map : n \in DOMAIN map2 /\ map2[n] = map[n]
    /\ DOMAIN map2 \subseteq DOMAIN map \cup {name}

\* a save_transaction call that raises "Account not found" leaves the
\* database and the caches; one that raises "Category not found" has at
\* most inserted one payee named payee_name, and cached at most the account
\* and the payee
FailsBeforeRecording(w, c) ==
    LET inserts == CallsOf(w, "insert")
    IN /\ w.exc = AccountNotFound =>
             /\ w.store = store
             /\ CachesSame(w)
             /\ \A i \in 1..Len(w.calls) : StepOf(w.calls[i]) = 1
       /\ w.exc = CategoryNotFound =>
             /\ CallsOf(w, "save") = <<>>
             /\ CallsOf(w, "get_doc") = <<>>
             /\ Len(inserts) <= 1
             /\ w.store = IF inserts # <<>> /\ "res" \in DOMAIN inserts[1]
                          THEN Added(store, Put(inserts[1].doc, "_rev", 1))
                          ELSE store
             /\ inserts # <<>> =>
                   /\ TypeOf(inserts[1].doc._id) = "payee"
                   /\ inserts[1].doc.name = c.payee_name
             /\ AtMostAdded(account_map, w.account_map, c.account_name)
             /\ AtMostAdded(payee_map, w.payee_map, c.payee_name)
             /\ w.category_map = category_map

\* C23: the store calls of every save_transaction call come in the order
\* account, payee, category, probe, save; a call that raises "Account not
\* found" leaves the database and the three caches as they were; a call that
\* raises "Category not found" has changed the database by at most one
\* inserted payee document named payee_name, and the caches by at most the
\* account and the payee of the call; this also when a store call fails in
\* transport.
TransactionResolutionOrder ==
    [](\A fails \in FailSets \cup {NoFail} :
          \A c \in IF fails = NoFail THEN TransactionCalls ELSE TransactionsTaken :
              LET w == SaveTransactionCall(Here(fails), c)
              IN StepsInOrder(w) /\ FailsBeforeRecording(w, c))

\* a transaction on an account that resolves, a payee the budget does not
\* have and a category that is missing: the payee is inserted and cached,
\* then the call raises; and a transaction on a missing account raises
\* while the caches hold entries
CategoryMissedAfterPayee ==
    /\ category_map # EmptyMap
    /\ \E c \in TransactionCalls :
          LET w == SaveTransactionCall(Here(NoFail), c)
          IN /\ w.exc = CategoryNotFound
             /\ c.account_name \notin DOMAIN account_map
             /\ Len(CallsOf(w, "insert")) = 1
             /\ Len(w.store) = Len(store) + 1
             /\ c.account_name \in DOMAIN w.account_map
             /\ c.payee_name \in DOMAIN w.payee_map
    /\ \E c \in TransactionCalls :
          SaveTransactionCall(Here(NoFail), c).exc = AccountNotFound

-----------------------------------------------------------------------------
(* C24 *)

\* the selector a child id is named under
SelectorOf(id) == SubSeq(id, 1, Len(id) - 2)

\* ref is null, or the bare id of a document of db of this type under sel
RefersWithin(db, sel, type, ref) == ref = JNull \/ Has(db, sel \o <<type, ref>>)

\* the account, the payee and the categories a transaction document names
\* are documents of the budget the transaction is named under
RefsWithinBudget(doc, db) ==
    LET sel == SelectorOf(doc._id)
    IN /\ RefersWithin(db, sel, "account", doc.account)
       /\ "payee" \in DOMAIN doc => RefersWithin(db, sel, "payee", doc.payee)
       /\ ("category" \in DOMAIN doc /\ doc.category \notin Sentinels \cup {"split"}) =>
             RefersWithin(db, sel, "category", doc.category)
       /\ "splits" \in DOMAIN doc =>
             \A i \in 1..Len(doc.splits) :
                 doc.splits[i].category \notin Sentinels =>
                     RefersWithin(db, sel, "category", doc.splits[i].category)

\* C24: in the session that connects one budget, every transaction document
\* in the database names, in account, in payee and in every category that
\* is no sentinel (its own and those of its splits), the bare id of a
\* document of that type that is in the database under the selector the
\* transaction is named under.
ReferencesWithinBudget ==
    \A i \in 1..Len(store) :
        TypeOf(store[i]._id) = "transaction" => RefsWithinBudget(store[i], store)

\* a payee was created before the budget was connected, under the empty
\* selector; a transaction recorded in the budget names it, and the budget
\* has no payee of that id
PayeeOutsideBudgetReferenced ==
    /\ budget_selector = <<"b", "u1">>
    /\ \E i \in 1..Len(store) :
          /\ TypeOf(store[i]._id) = "transaction"
          /\ SelectorOf(store[i]._id) = <<"b", "u1">>
          /\ "payee" \in DOMAIN store[i]
          /\ Has(store, <<"", "payee", store[i].payee>>)
          /\ ~Has(store, <<"b", "u1", "payee", store[i].payee>>)
          /\ RefersWithin(store, <<"b", "u1">>, "account", store[i].account)

\* the references stay within the budget as long as no payee was created
\* before the budget was connected
ReferencesWithinBudgetAfterConnect ==
    []((\A i \in 1..Len(store) : SelectorOf(store[i]._id) # NoSelector)
          => ReferencesWithinBudget)

====
